---------------------------- MODULE Spec2Model ----------------------------
(***************************************************************************)
(* A model of the retrieval-augmented generation core of                   *)
(* groq-llama-genesis: the in-memory vector store (vector-store.ts), the   *)
(* document processor, the configuration validation (config.ts), the query *)
(* pipeline (rag-pipeline.ts) and the useRAG hook over it (useRAG.ts).     *)
(*                                                                         *)
(* Strings are sequences of one-character strings.  The specifications     *)
(* share the variables:                                                    *)
(*   SpecStore    - the vector store driven through its public methods;    *)
(*   SpecSearch   - similaritySearch applied to stores of a few chunks;    *)
(*   SpecConfig   - the constructor and updateConfig of RAGPipeline;       *)
(*   Spec         - the pipeline with two calls in flight;                 *)
(*   SpecSeq      - the pipeline used one operation at a time;             *)
(*   SpecStream   - one streamQuery call at a time over any backend stream;*)
(*   SpecResult   - query and streamQuery over chunks of shared sources;   *)
(*   SpecUpload   - addDocument over files that fail at each stage;        *)
(*   SpecAdvanced - advancedSearch under its options;                      *)
(*   SpecClear    - clearHistory and clearKnowledgeBase with a call in     *)
(*                  flight;                                                *)
(*   SpecHook     - the useRAG hook with calls in flight;                  *)
(*   SpecHookFair - SpecHook with promises and generators running on.      *)
(***************************************************************************)
EXTENDS Integers, Sequences, FiniteSets, TLC

VARIABLES
    documents,            \* InMemoryVectorStore.documents, in Map insertion order
    lastOp,               \* the last operation observed: its arguments, the state it found, its result
    constructed,          \* whether a RAGPipeline instance exists
    config,               \* RAGPipeline.config
    llmConfig,            \* GroqLLMProvider.config
    splitter,             \* DocumentProcessor.textSplitter settings
    conversationHistory,  \* RAGPipeline.conversationHistory
    calls,                \* the query / streamQuery calls in flight
    log,                  \* (question, answer) pairs pushed since the history was last emptied
    started,              \* number of query / streamQuery calls started
    state                 \* the RAGState of the useRAG hook

vars == <<documents, lastOp, constructed, config, llmConfig, splitter,
          conversationHistory, calls, log, started, state>>

storeVars == <<documents>>
configVars == <<constructed, config, llmConfig, splitter>>
pipeVars == <<conversationHistory, calls, log, started, state>>

-----------------------------------------------------------------------------
(* Bounds of the model *)

MaxStore == 2      \* entries the store may hold
MaxK == 2          \* largest k asked of similaritySearch
MaxChunks == 3     \* chunks of the stores similaritySearch is applied to
MaxFrags == 2      \* fragments the backend streams for one answer
MaxCalls == 6      \* query / streamQuery calls of a sequential run
MaxStreams == 2    \* streamQuery calls of a run that follows one stream

-----------------------------------------------------------------------------
(* Generic helpers *)

Min(a, b) == IF a < b THEN a ELSE b

Max(a, b) == IF a < b THEN b ELSE a

Range(s) == {s[i] : i \in 1..Len(s)}

\* Array.prototype.filter
RECURSIVE SelectSeqBy(_, _)
SelectSeqBy(s, keep) ==
    IF s = <<>> THEN <<>>
    ELSE (IF Head(s) \in keep THEN <<Head(s)>> ELSE <<>>) \o SelectSeqBy(Tail(s), keep)

\* Array.prototype.slice(0, k): a negative k counts from the end
SliceTo(s, k) ==
    LET e == IF k < 0 THEN Max(Len(s) + k, 0) ELSE Min(k, Len(s))
    IN  SubSeq(s, 1, e)

\* Array.prototype.slice(-n), n > 0: the last n elements
SliceLast(s, n) ==
    SubSeq(s, Max(Len(s) - n, 0) + 1, Len(s))

\* String.prototype.startsWith
StartsWith(s, p) ==
    /\ Len(p) <= Len(s)
    /\ SubSeq(s, 1, Len(p)) = p

SeqPermutations(s) ==
    LET n == Len(s)
        orders == {f \in [1..n -> 1..n] : \A i, j \in 1..n : i # j => f[i] # f[j]}
    IN  {[i \in 1..n |-> s[f[i]]] : f \in orders}

-----------------------------------------------------------------------------
(* Texts, identifiers and chunks *)

\* The characters createSimpleEmbedding counts (its `chars` string), cut to two
FeatureChars == <<"a", "b">>

\* Chunk contents: the empty string, two one-letter texts
StoreTexts == {<<>>, <<"a">>, <<"b">>}

\* Queries: empty, matching one chunk text, matching both with different
\* scores, and a text without any counted character
Queries == {<<>>, <<"a">>, <<"a", "a", "b">>, <<"#">>}

\* Document ids (doc_<time>_<random>); <<1>> is a proper prefix of <<1, 2>>
DocIds == {<<1>>, <<1, 2>>, <<2>>}

\* The "_chunk_" part of a chunk id
ChunkMark == <<9>>

\* Numbers of chunks a document is split into
BatchLens == {1, 2}

\* Document.name of the document with the given id
SourceOf(docId) == IF docId = <<2>> THEN <<"g">> ELSE <<"f">>

\* The text-splitter's output for one document, as createChunks reads it
SplitTexts == UNION {[1..n -> StoreTexts] : n \in BatchLens}

\* createChunks: one chunk per text, with id `${document.id}_chunk_${index}`
createChunks(docId, texts) ==
    [i \in 1..Len(texts) |->
        [id |-> docId \o ChunkMark \o <<i - 1>>,
         content |-> texts[i],
         metadata |-> [source |-> SourceOf(docId)]]]

-----------------------------------------------------------------------------
(* Embedding and cosine similarity *)

\* text.split(char).length - 1: the occurrences of char in text
RECURSIVE Occurrences(_, _)
Occurrences(text, char) ==
    IF text = <<>> THEN 0
    ELSE (IF Head(text) = char THEN 1 ELSE 0) + Occurrences(Tail(text), char)

\* The character-frequency block of the embedding (the bigram, word and
\* punctuation entries are left out).  Every entry is a count divided by
\* text.length: num holds the counts and den the length, so that den = 0
\* (the empty text) stands for entries 0/0 = NaN.
createSimpleEmbedding(text) ==
    [num |-> [i \in 1..Len(FeatureChars) |-> Occurrences(text, FeatureChars[i])],
     den |-> Len(text)]

RECURSIVE SumTo(_, _)
SumTo(f, n) == IF n = 0 THEN 0 ELSE f[n] + SumTo(f, n - 1)

Dot(u, v) == SumTo([i \in 1..Len(u) |-> u[i] * v[i]], Len(u))

NaN == [nan |-> TRUE, dot |-> 0, mm |-> 1]

\* A similarity is NaN or the number dot / sqrt(mm), with dot >= 0 and mm > 0
\* (the common factor 1 / (a.den * b.den) cancels).
cosineSimilarity(a, b) ==
    LET aNaN == a.den = 0
        bNaN == b.den = 0
        ma2 == Dot(a.num, a.num)
        mb2 == Dot(b.num, b.num)
    IN  IF (~aNaN /\ ma2 = 0) \/ (~bNaN /\ mb2 = 0)
        THEN [nan |-> FALSE, dot |-> 0, mm |-> 1]    \* magnitude === 0: return 0
        ELSE IF aNaN \/ bNaN THEN NaN
        ELSE [nan |-> FALSE, dot |-> Dot(a.num, b.num), mm |-> ma2 * mb2]

\* x < y on similarities that are numbers
SimLess(x, y) == x.dot * x.dot * y.mm < y.dot * y.dot * x.mm

\* similarity > 0.1; NaN > 0.1 is false
AboveThreshold(x) == ~x.nan /\ 100 * x.dot * x.dot > x.mm

\* Compare with the operands exchanged: a.similarity - b.similarity
CompareAscending(a, b) ==
    IF a.similarity.nan \/ b.similarity.nan THEN 0
    ELSE IF SimLess(a.similarity, b.similarity) THEN -1
    ELSE IF SimLess(b.similarity, a.similarity) THEN 1
    ELSE 0

\* The sort comparator (a, b) => b.similarity - a.similarity, as sort reads
\* it: negative, zero or positive, with NaN read as +0
Compare(a, b) ==
    IF a.similarity.nan \/ b.similarity.nan THEN 0
    ELSE IF SimLess(b.similarity, a.similarity) THEN -1
    ELSE IF SimLess(a.similarity, b.similarity) THEN 1
    ELSE 0

-----------------------------------------------------------------------------
(* Array.prototype.sort with the comparator above *)

\* x goes after every element that does not sort after it (stable)
RECURSIVE InsertSorted(_, _)
InsertSorted(s, x) ==
    IF s = <<>> THEN <<x>>
    ELSE IF Compare(Head(s), x) <= 0 THEN <<Head(s)>> \o InsertSorted(Tail(s), x)
    ELSE <<x>> \o s

RECURSIVE StableSort(_)
StableSort(s) ==
    IF s = <<>> THEN <<>>
    ELSE InsertSorted(StableSort(SubSeq(s, 1, Len(s) - 1)), s[Len(s)])

\* The comparator is consistent when "compares equal" is transitive: with a
\* NaN among the similarities that takes all numbers to be equal.
ConsistentComparator(s) ==
    \/ \A i \in 1..Len(s) : ~s[i].similarity.nan
    \/ \A i, j \in 1..Len(s) : Compare(s[i], s[j]) = 0

\* The orders sort may leave: the stable order, or an implementation-defined
\* one when the comparator is not consistent.
SortOutcomes(s) ==
    IF ConsistentComparator(s) THEN {StableSort(s)} ELSE SeqPermutations(s)

-----------------------------------------------------------------------------
(* InMemoryVectorStore *)

StoreChunk(doc) == [id |-> doc.id, content |-> doc.content, metadata |-> doc.metadata]

IndexOfId(docs, id) ==
    IF \E i \in 1..Len(docs) : docs[i].id = id
    THEN CHOOSE i \in 1..Len(docs) : docs[i].id = id
    ELSE 0

\* Map.set: a present key keeps its place, a new key goes last
MapSet(docs, entry) ==
    LET i == IndexOfId(docs, entry.id)
    IN  IF i = 0 THEN Append(docs, entry) ELSE [docs EXCEPT ![i] = entry]

\* The fields of an object that does not exist
None == [none |-> TRUE]

\* A chunk whose content is not a string: createSimpleEmbedding throws a
\* TypeError at text.toLowerCase()
Undefined == <<"undefined">>

EmbeddingThrows(content) == content = Undefined

TypeErrorMessage == "Cannot read properties of undefined (reading 'toLowerCase')"

\* addDocuments: embed and set each chunk in turn; the first chunk whose
\* embedding throws ends the loop, the entries set before it stay
RECURSIVE addDocuments(_, _)
addDocuments(docs, chunks) ==
    IF chunks = <<>> THEN docs
    ELSE IF EmbeddingThrows(Head(chunks).content) THEN docs
    ELSE addDocuments(
            MapSet(docs, [id |-> Head(chunks).id,
                          content |-> Head(chunks).content,
                          metadata |-> Head(chunks).metadata,
                          embedding |-> createSimpleEmbedding(Head(chunks).content)]),
            Tail(chunks))

\* The position of the chunk addDocuments fails at, 0 when it does not fail
FailsAt(chunks) ==
    IF \E i \in 1..Len(chunks) : EmbeddingThrows(chunks[i].content)
    THEN CHOOSE i \in 1..Len(chunks) :
            /\ EmbeddingThrows(chunks[i].content)
            /\ \A j \in 1..(i - 1) : ~EmbeddingThrows(chunks[j].content)
    ELSE 0

\* The error addDocuments throws: `Failed to add chunk: ${error.message}`.
\* names holds the chunk ids the message contains: none, the failing chunk's
\* id goes to console.error only
addDocumentsError(chunks) ==
    IF FailsAt(chunks) = 0 THEN None
    ELSE [message |-> <<"Failed to add chunk: ", TypeErrorMessage>>, names |-> {}]

\* The scored list similaritySearch builds from the Map's values
RECURSIVE Similarities(_, _)
Similarities(docs, queryEmbedding) ==
    IF docs = <<>> THEN <<>>
    ELSE <<[chunk |-> StoreChunk(Head(docs)),
            similarity |-> cosineSimilarity(queryEmbedding, Head(docs).embedding)]>>
         \o Similarities(Tail(docs), queryEmbedding)

\* slice(0, k) and map without the threshold
TopChunksNoThreshold(sorted, k) ==
    LET top == SliceTo(sorted, k)
    IN  [i \in 1..Len(top) |-> top[i].chunk]

\* .slice(0, k).filter(similarity > 0.1).map(chunk) of one sorted list
TopChunks(sorted, k) ==
    LET top == SliceTo(sorted, k)
        kept == SelectSeqBy(top, {x \in Range(top) : AboveThreshold(x.similarity)})
    IN  [i \in 1..Len(kept) |-> kept[i].chunk]

\* The value a call leaves when it throws
Thrown == <<"threw">>

\* similaritySearch that throws on an empty store
similaritySearchThrowsOnEmpty(docs, query, k) ==
    IF Len(docs) = 0 THEN {Thrown}
    ELSE LET queryEmbedding == createSimpleEmbedding(query)
             similarities == Similarities(docs, queryEmbedding)
         IN  {TopChunks(sorted, k) : sorted \in SortOutcomes(similarities)}

\* similaritySearch throws "Search failed: ..." when the embedding of the
\* query throws; an empty store returns before that
similaritySearchThrows(docs, query) == Len(docs) # 0 /\ EmbeddingThrows(query)

\* similaritySearch: the results the call may return
similaritySearch(docs, query, k) ==
    IF Len(docs) = 0 THEN {<<>>}
    ELSE IF EmbeddingThrows(query) THEN {Thrown}
    ELSE LET queryEmbedding == createSimpleEmbedding(query)
             similarities == Similarities(docs, queryEmbedding)
         IN  {TopChunks(sorted, k) : sorted \in SortOutcomes(similarities)}

\* delete that removes only the first key that matches
deleteFirstOnly(docs, documentId) ==
    LET hits == {i \in 1..Len(docs) : StartsWith(docs[i].id, documentId)}
    IN  IF hits = {} THEN docs
        ELSE LET first == CHOOSE i \in hits : \A j \in hits : i <= j
             IN  SubSeq(docs, 1, first - 1) \o SubSeq(docs, first + 1, Len(docs))

\* delete: drop every entry whose key starts with documentId
delete(docs, documentId) ==
    SelectSeqBy(docs, {d \in Range(docs) : ~StartsWith(d.id, documentId)})

\* clear
clear(docs) == <<>>

-----------------------------------------------------------------------------
(* Configuration (config.ts).  A Partial<RAGConfig> is a record that holds *)
(* only the fields that are given; temperature is counted in tenths.       *)

ConfigFields == {"groqApiKey", "temperature", "maxTokens", "topK", "chunkSize", "chunkOverlap"}

DEFAULT_RAG_CONFIG ==
    [model |-> "llama-3.1-8b-instant",
     temperature |-> 1,
     maxTokens |-> 1024,
     topK |-> 4,
     chunkSize |-> 1000,
     chunkOverlap |-> 200]

\* The values a caller may give for each field
ConfigValues ==
    [groqApiKey : {<<" ">>, <<"k">>},
     temperature : {-1, 5, 11},
     maxTokens : {-1, 0},
     topK : {-1, 0},
     chunkSize : {0, 50},
     chunkOverlap : {1000}]

\* Numbers of fields one partial config gives
PartialSizes == {0, 1, 2}

PartialConfigs ==
    {[f \in S |-> r[f]] :
        r \in ConfigValues,
        S \in {T \in SUBSET ConfigFields : Cardinality(T) \in PartialSizes}}

Has(c, f) == f \in DOMAIN c

\* { ...base, ...over }
Merge(base, over) ==
    [f \in DOMAIN base \cup DOMAIN over |-> IF f \in DOMAIN over THEN over[f] ELSE base[f]]

\* String.prototype.trim
RECURSIVE TrimStart(_)
TrimStart(s) ==
    IF s # <<>> /\ Head(s) = " " THEN TrimStart(Tail(s)) ELSE s

RECURSIVE TrimEnd(_)
TrimEnd(s) ==
    IF s # <<>> /\ s[Len(s)] = " " THEN TrimEnd(SubSeq(s, 1, Len(s) - 1)) ELSE s

Trim(s) == TrimEnd(TrimStart(s))

\* validateConfig: the messages, in order.  `config.x && ...` skips a field
\* that is absent or 0.
validateConfig(c) ==
    (IF ~Has(c, "groqApiKey") \/ Trim(c.groqApiKey) = <<>>
     THEN <<"Groq API key is required">> ELSE <<>>)
    \o (IF Has(c, "temperature") /\ c.temperature # 0
           /\ (c.temperature < 0 \/ c.temperature > 10)
        THEN <<"Temperature must be between 0 and 1">> ELSE <<>>)
    \o (IF Has(c, "maxTokens") /\ c.maxTokens # 0 /\ c.maxTokens < 1
        THEN <<"Max tokens must be greater than 0">> ELSE <<>>)
    \o (IF Has(c, "topK") /\ c.topK # 0 /\ c.topK < 1
        THEN <<"Top K must be greater than 0">> ELSE <<>>)
    \o (IF Has(c, "chunkSize") /\ c.chunkSize # 0 /\ c.chunkSize < 100
        THEN <<"Chunk size must be at least 100 characters">> ELSE <<>>)

\* new RecursiveCharacterTextSplitter({chunkSize, chunkOverlap, ...}): the
\* library's constructor throws "Cannot have chunkOverlap >= chunkSize"
SplitterThrows(c) == c.chunkOverlap >= c.chunkSize

SplitterOf(c) == [chunkSize |-> c.chunkSize, chunkOverlap |-> c.chunkOverlap]

\* GroqLLMProvider.updateConfig: { ...this.config, ...newConfig }
llmUpdateConfig(old, new) == Merge(old, new)

\* The state useRAG starts with (useRAG.ts); config and pipeline are left out
InitialState ==
    [documents |-> <<>>, queries |-> <<>>, isProcessing |-> FALSE, isQuerying |-> FALSE]

NoOp == [op |-> "none", arg |-> None, k |-> 0, pre |-> None, result |-> None, threw |-> FALSE]

-----------------------------------------------------------------------------
(* The vector store driven through its public methods *)

\* The k values asked of similaritySearch
Ks == 0..MaxK

\* A call slot: the position of the call, its locals (question, chunks,
\* fullAnswer, result), the items it has yielded (events), the fragments the
\* backend's stream will produce (backend), and the number of generate() or
\* stream() invocations
IdleCall ==
    [kind |-> "none", pc |-> "idle", question |-> <<>>, chunks |-> <<>>,
     fullAnswer |-> <<>>, generated |-> 0, appended |-> FALSE, result |-> None,
     events |-> <<>>, backend |-> <<>>, requested |-> 0, prompt |-> None]

Slots == {1, 2}

NoPipeline ==
    /\ constructed = FALSE
    /\ config = None
    /\ llmConfig = None
    /\ splitter = None
    /\ conversationHistory = <<>>
    /\ calls = [c \in Slots |-> IdleCall]
    /\ log = <<>>
    /\ started = 0
    /\ state = InitialState

StoreInit ==
    /\ documents = <<>>
    /\ lastOp = NoOp
    /\ NoPipeline

\* store.addDocuments(chunks) with the chunks of one document
StoreAddDocuments(docId, texts) ==
    /\ Len(addDocuments(documents, createChunks(docId, texts))) <= MaxStore
    /\ documents' = addDocuments(documents, createChunks(docId, texts))
    /\ lastOp' = [NoOp EXCEPT !.op = "addDocuments"]
    /\ UNCHANGED <<configVars, pipeVars>>

\* store.addDocuments(chunks) where the content of the chunk at position i
\* is not a string
StoreAddDocumentsFails(docId, texts, i) ==
    LET chunks == [createChunks(docId, texts) EXCEPT ![i].content = Undefined]
    IN  /\ Len(addDocuments(documents, chunks)) <= MaxStore
        /\ documents' = addDocuments(documents, chunks)
        /\ lastOp' = [NoOp EXCEPT !.op = "addDocuments", !.arg = chunks, !.pre = documents,
                                   !.result = addDocumentsError(chunks), !.threw = TRUE]
        /\ UNCHANGED <<configVars, pipeVars>>

\* store.similaritySearch(query, k)
StoreSimilaritySearch(query, k) ==
    /\ \E r \in similaritySearch(documents, query, k) :
          lastOp' = [NoOp EXCEPT !.op = "similaritySearch", !.arg = query, !.k = k,
                                 !.result = r]
    /\ UNCHANGED <<storeVars, configVars, pipeVars>>

\* store.delete(documentId)
StoreDelete(documentId) ==
    /\ documents' = delete(documents, documentId)
    /\ lastOp' = [NoOp EXCEPT !.op = "delete", !.arg = documentId, !.pre = documents]
    /\ UNCHANGED <<configVars, pipeVars>>

\* store.clear()
StoreClear ==
    /\ documents' = clear(documents)
    /\ lastOp' = [NoOp EXCEPT !.op = "clear", !.pre = documents]
    /\ UNCHANGED <<configVars, pipeVars>>

\* The splitter's output for the documents one of whose chunks fails
FailTexts == UNION {[1..n -> {<<"a">>}] : n \in BatchLens}

\* Arguments of delete: the document ids and the empty string
DeleteArgs == DocIds \cup {<<>>}

StoreNext ==
    \/ \E docId \in DocIds, texts \in SplitTexts : StoreAddDocuments(docId, texts)
    \/ \E docId \in DocIds, texts \in FailTexts, i \in BatchLens :
          i <= Len(texts) /\ StoreAddDocumentsFails(docId, texts, i)
    \/ \E query \in Queries, k \in Ks : StoreSimilaritySearch(query, k)
    \/ \E documentId \in DeleteArgs : StoreDelete(documentId)
    \/ StoreClear

SpecStore == StoreInit /\ [][StoreNext]_vars

-----------------------------------------------------------------------------
(* similaritySearch applied to the stores of up to MaxChunks chunks *)

SearchStores ==
    {addDocuments(<<>>, createChunks(<<1>>, texts)) :
        texts \in UNION {[1..n -> StoreTexts] : n \in 1..MaxChunks}}

SearchInit ==
    /\ documents \in SearchStores
    /\ lastOp = NoOp
    /\ NoPipeline

SearchNext ==
    \E query \in Queries, k \in Ks : StoreSimilaritySearch(query, k)

SpecSearch == SearchInit /\ [][SearchNext]_vars

-----------------------------------------------------------------------------
(* The constructor and updateConfig of RAGPipeline *)

ConfigInit ==
    /\ documents = <<>>
    /\ lastOp = NoOp
    /\ NoPipeline

\* What a constructor or updateConfig call leaves in lastOp
ConfigOp(op, partial, errors, threw) ==
    [NoOp EXCEPT !.op = op, !.arg = partial, !.result = errors, !.threw = threw,
                 !.pre = <<config, llmConfig, splitter>>]

\* new RAGPipeline(partial): validate the partial config, merge it over the
\* defaults, build the provider, the store and the document processor
constructor(partial) ==
    LET errors == validateConfig(partial)
        merged == Merge(DEFAULT_RAG_CONFIG, partial)
    IN  /\ ~constructed
        /\ IF errors # <<>> \/ SplitterThrows(merged)
           THEN UNCHANGED <<constructed, config, llmConfig, splitter>>
           ELSE /\ constructed' = TRUE
                /\ config' = merged
                /\ llmConfig' = merged
                /\ splitter' = SplitterOf(merged)
        /\ UNCHANGED <<storeVars, conversationHistory, calls>>

\* updateConfig that assigns the merged config before it validates
updateConfigAssignFirst(partial) ==
    LET merged == Merge(config, partial)
        errors == validateConfig(merged)
    IN  /\ constructed
        /\ config' = merged
        /\ IF errors # <<>>
           THEN UNCHANGED <<llmConfig, splitter>>
           ELSE /\ llmConfig' = llmUpdateConfig(llmConfig, merged)
                /\ splitter' = IF SplitterThrows(merged) THEN splitter ELSE SplitterOf(merged)
        /\ UNCHANGED <<constructed, storeVars, conversationHistory, calls>>

\* pipeline.updateConfig(partial): validate the merged config, then assign it,
\* update the provider, and rebuild the splitter (which may throw)
updateConfig(partial) ==
    LET merged == Merge(config, partial)
        errors == validateConfig(merged)
    IN  /\ constructed
        /\ IF errors # <<>>
           THEN UNCHANGED <<config, llmConfig, splitter>>
           ELSE /\ config' = merged
                /\ llmConfig' = llmUpdateConfig(llmConfig, merged)
                /\ splitter' = IF SplitterThrows(merged) THEN splitter ELSE SplitterOf(merged)
        /\ UNCHANGED <<constructed, storeVars, conversationHistory, calls>>

Construct(partial) ==
    /\ constructor(partial)
    /\ lastOp' = ConfigOp("construct", partial, validateConfig(partial),
                          validateConfig(partial) # <<>>
                              \/ SplitterThrows(Merge(DEFAULT_RAG_CONFIG, partial)))
    /\ UNCHANGED <<log, started, state>>

UpdateConfig(partial) ==
    /\ updateConfig(partial)
    /\ lastOp' = ConfigOp("updateConfig", partial, validateConfig(Merge(config, partial)),
                          validateConfig(Merge(config, partial)) # <<>>
                              \/ SplitterThrows(Merge(config, partial)))
    /\ UNCHANGED <<log, started, state>>

ConfigNext ==
    \/ \E partial \in PartialConfigs : Construct(partial)
    \/ \E partial \in PartialConfigs : UpdateConfig(partial)

SpecConfig == ConfigInit /\ [][ConfigNext]_vars

-----------------------------------------------------------------------------
(* RAGPipeline: query and streamQuery (rag-pipeline.ts) *)

\* `if (this.conversationHistory.length > 5)` and `.slice(-5)`
HistoryLimit == 5

\* The fallback answers of query and of streamQuery
QueryFallback == <<"I don't have any relevant information", "Please try uploading">>

StreamFallback == <<"I don't have any relevant information">>

\* Questions asked while other calls are in flight: one that matches the
\* stored text, and one that is not a string, on which the store's search throws
Questions == {<<"a">>, Undefined}

\* Text fragments the backend produces
Fragments == {"x"}

\* Answers generate() may return: what the stream's fragments add up to
GenAnswers == {[i \in 1..MaxFrags |-> "x"]}

\* The fragment sequences the backend streams while other calls are in flight
Streams == GenAnswers

\* An item streamQuery yields: {type, content}; content is the note
\* ("searching", "found" with the number n of chunks) or the text
Event(type, note, n, text) == [type |-> type, note |-> note, n |-> n, text |-> text]

Searching == Event("context", "searching", 0, <<>>)

\* The files given to addDocument: the document id and the splitter's texts
Files == {[id |-> <<1>>, texts |-> <<<<"a">>>>]}

\* Partial configs given to updateConfig while calls are in flight
PipePartials == {[topK |-> 0], [topK |-> 4], [chunkSize |-> 50]}

\* The list as it is, repeated elements included
KeepAll(xs) == xs

\* [...new Set(xs)]: the first occurrence of each element, in order
RECURSIVE Dedupe(_)
Dedupe(xs) ==
    IF xs = <<>> THEN <<>>
    ELSE LET front == Dedupe(SubSeq(xs, 1, Len(xs) - 1))
             x == xs[Len(xs)]
         IN  IF x \in Range(front) THEN front ELSE Append(front, x)

\* The RAGQuery built from the retrieved chunks and the answer
QueryResult(question, chunks, answer) ==
    [question |-> question,
     context |-> [i \in 1..Len(chunks) |-> chunks[i].content],
     answer |-> answer,
     sources |-> Dedupe([i \in 1..Len(chunks) |-> chunks[i].metadata.source])]

\* formatContextChunks: one citation per chunk, "[Source i: name]" followed by
\* the chunk's content; a chunk without source is cited as "Unknown" (no chunk
\* of the pipeline carries a page)
formatContextChunks(chunks) ==
    [i \in 1..Len(chunks) |->
        [label |-> i,
         source |-> IF chunks[i].metadata.source = <<>> THEN <<"Unknown">>
                    ELSE chunks[i].metadata.source,
         content |-> chunks[i].content]]

\* Turns of the history that go into a prompt
PromptTurns == 3

\* A prompt that carries the whole history
createConversationPromptAllTurns(question, context, history) ==
    [turns |-> history, context |-> context, question |-> question]

\* createConversationPrompt: the parts of the prompt in the order they are
\* written: the "Q: ... A: ..." lines of the last PromptTurns turns (none, and
\* no header, for an empty history), then the template filled with the context
\* and the question
createConversationPrompt(question, context, history) ==
    [turns |-> IF Len(history) > 0 THEN SliceLast(history, PromptTurns) ELSE <<>>,
     context |-> context,
     question |-> question]

\* push without the cap
pushHistoryUncapped(history, question, answer) ==
    Append(history, [question |-> question, answer |-> answer])

\* push that keeps the first five entries
pushHistoryKeepFirst(history, question, answer) ==
    LET pushed == Append(history, [question |-> question, answer |-> answer])
    IN  IF Len(pushed) > HistoryLimit THEN SubSeq(pushed, 1, HistoryLimit) ELSE pushed

\* conversationHistory.push({question, answer}); if longer than 5, slice(-5)
pushHistory(history, question, answer) ==
    LET pushed == Append(history, [question |-> question, answer |-> answer])
    IN  IF Len(pushed) > HistoryLimit THEN SliceLast(pushed, HistoryLimit) ELSE pushed

\* retrieveContext that lets the store's error through
retrieveContextRethrows(docs, question, k) == similaritySearch(docs, question, k)

\* retrieveContext: the store's results, [] when similaritySearch throws
retrieveContext(docs, question, k) ==
    IF similaritySearchThrows(docs, question) THEN {<<>>}
    ELSE similaritySearch(docs, question, k)

\* A slot takes a new call when it holds none or a finished one
Free(c) == calls[c].pc \in {"idle", "returned", "threw", "cancelled"}

\* The generator is suspended at a yield
Yielded(c) ==
    calls[c].pc \in {"yieldedSearching", "yieldedFound", "yieldedFallback", "yieldedFragment"}

PipeInit ==
    /\ documents = <<>>
    /\ lastOp = NoOp
    /\ constructed = TRUE
    /\ config = Merge(DEFAULT_RAG_CONFIG, [groqApiKey |-> <<"k">>])
    /\ llmConfig = config
    /\ splitter = SplitterOf(config)
    /\ conversationHistory = <<>>
    /\ calls = [c \in Slots |-> IdleCall]
    /\ log = <<>>
    /\ started = 0
    /\ state = InitialState

\* pipeline.addDocument(file), the file being processed without error
addDocument(file) ==
    /\ Len(addDocuments(documents, createChunks(file.id, file.texts))) <= MaxStore
    /\ documents' = addDocuments(documents, createChunks(file.id, file.texts))
    /\ UNCHANGED <<configVars, conversationHistory, calls>>

\* pipeline.removeDocument(documentId)
removeDocument(documentId) ==
    /\ documents' = delete(documents, documentId)
    /\ UNCHANGED <<configVars, conversationHistory, calls>>

\* pipeline.clearHistory()
clearHistory ==
    /\ conversationHistory' = <<>>
    /\ UNCHANGED <<storeVars, configVars, calls>>

\* A clearKnowledgeBase that empties the store only
clearKnowledgeBaseStoreOnly ==
    /\ documents' = clear(documents)
    /\ UNCHANGED <<configVars, conversationHistory, calls>>

\* pipeline.clearKnowledgeBase()
clearKnowledgeBase ==
    /\ documents' = clear(documents)
    /\ conversationHistory' = <<>>
    /\ UNCHANGED <<configVars, calls>>

\* pipeline.getStats(): the store's chunk count, the history's length
getStats == [totalChunks |-> Len(documents), conversations |-> Len(conversationHistory)]

\* pipeline.testPipeline(): success unless testConnection() gave false, which
\* it does when generate() fails or answers without "ok"
testPipeline(connected) == [success |-> connected]

\* getStats and testPipeline assign to no field of the pipeline
ReadOnly == UNCHANGED <<storeVars, configVars, conversationHistory, calls>>

\* query(question) up to its first await: retrieveContext has searched
queryStart(c, question) ==
    /\ Free(c)
    /\ \E found \in retrieveContext(documents, question, config.topK) :
          calls' = [calls EXCEPT ![c] =
                        [IdleCall EXCEPT !.kind = "query", !.pc = "retrieving",
                                         !.question = question, !.chunks = found]]
    /\ UNCHANGED <<storeVars, configVars, conversationHistory>>

\* query that calls generate() whatever was retrieved
queryRetrievedAlwaysGenerates(c) ==
    /\ calls[c].kind = "query"
    /\ calls[c].pc = "retrieving"
    /\ calls' = [calls EXCEPT ![c] = [@ EXCEPT !.pc = "generating", !.generated = @ + 1]]
    /\ UNCHANGED <<storeVars, configVars, conversationHistory>>

\* A query that records its fallback answer in the history
queryRetrievedPushesFallback(c) ==
    /\ calls[c].kind = "query"
    /\ calls[c].pc = "retrieving"
    /\ calls' = [calls EXCEPT ![c] =
                    IF calls[c].chunks = <<>>
                    THEN [@ EXCEPT !.pc = "returned",
                                   !.result = QueryResult(calls[c].question, <<>>, QueryFallback)]
                    ELSE [@ EXCEPT !.pc = "generating", !.generated = @ + 1,
                                   !.prompt = createConversationPrompt(
                                                 calls[c].question,
                                                 formatContextChunks(calls[c].chunks),
                                                 conversationHistory)]]
    /\ conversationHistory' =
          IF calls[c].chunks = <<>>
          THEN pushHistory(conversationHistory, calls[c].question, QueryFallback)
          ELSE conversationHistory
    /\ UNCHANGED <<storeVars, configVars>>

\* query after retrieval: the fallback result, or the prompt and generate()
queryRetrieved(c) ==
    /\ calls[c].kind = "query"
    /\ calls[c].pc = "retrieving"
    /\ calls' = [calls EXCEPT ![c] =
                    IF calls[c].chunks = <<>>
                    THEN [@ EXCEPT !.pc = "returned",
                                   !.result = QueryResult(calls[c].question, <<>>, QueryFallback)]
                    ELSE [@ EXCEPT !.pc = "generating", !.generated = @ + 1,
                                   !.prompt = createConversationPrompt(
                                                 calls[c].question,
                                                 formatContextChunks(calls[c].chunks),
                                                 conversationHistory)]]
    /\ UNCHANGED <<storeVars, configVars, conversationHistory>>

\* generate() resolved: build the result, push the history, return
queryGenerated(c, answer) ==
    /\ calls[c].kind = "query"
    /\ calls[c].pc = "generating"
    /\ conversationHistory' = pushHistory(conversationHistory, calls[c].question, answer)
    /\ calls' = [calls EXCEPT ![c] =
                    [@ EXCEPT !.pc = "returned", !.fullAnswer = answer, !.appended = TRUE,
                              !.result = QueryResult(calls[c].question, calls[c].chunks, answer)]]
    /\ UNCHANGED <<storeVars, configVars>>

\* A query that calls generate() again when it rejected
queryGenerateRetries(c) ==
    /\ calls[c].kind = "query"
    /\ calls[c].pc = "generating"
    /\ calls' = [calls EXCEPT ![c] = [@ EXCEPT !.generated = @ + 1]]
    /\ UNCHANGED <<storeVars, configVars, conversationHistory>>

\* generate() rejected: query throws "Query failed: ..."
queryGenerateFails(c) ==
    /\ calls[c].kind = "query"
    /\ calls[c].pc = "generating"
    /\ calls' = [calls EXCEPT ![c] = [@ EXCEPT !.pc = "threw"]]
    /\ UNCHANGED <<storeVars, configVars, conversationHistory>>

\* streamQuery(question): the generator is created, nothing has run
streamStart(c, question) ==
    /\ Free(c)
    /\ calls' = [calls EXCEPT ![c] =
                    [IdleCall EXCEPT !.kind = "stream", !.pc = "created",
                                     !.question = question]]
    /\ UNCHANGED <<storeVars, configVars, conversationHistory>>

\* A generator that does not wait for the consumer after "searching": the
\* first request already runs the retrieval
streamNextEager(c, streams) ==
    /\ calls[c].kind = "stream"
    /\ \/ /\ calls[c].pc = "created"
          /\ \E found \in retrieveContext(documents, calls[c].question, config.topK) :
                calls' = [calls EXCEPT ![c] = [@ EXCEPT !.pc = "retrieving", !.chunks = found,
                                                       !.events = Append(@, Searching),
                                                       !.requested = @ + 1]]
       \/ /\ calls[c].pc = "yieldedFound"
          /\ \E produced \in streams :
                calls' = [calls EXCEPT ![c] = [@ EXCEPT !.pc = "streaming", !.generated = @ + 1,
                                                       !.backend = produced,
                                                       !.requested = @ + 1,
                                                       !.prompt = createConversationPrompt(
                                                                     calls[c].question,
                                                                     formatContextChunks(calls[c].chunks),
                                                                     conversationHistory)]]
       \/ /\ calls[c].pc = "yieldedFragment"
          /\ calls' = [calls EXCEPT ![c] = [@ EXCEPT !.pc = "streaming", !.requested = @ + 1]]
       \/ /\ calls[c].pc = "yieldedFallback"
          /\ calls' = [calls EXCEPT ![c] = [@ EXCEPT !.pc = "returned", !.requested = @ + 1]]
    /\ UNCHANGED <<storeVars, configVars, conversationHistory>>

\* The consumer asks for the next item (requested counts these requests); the
\* generator body runs from where it was suspended to its next yield.  After
\* "found N" it calls stream(prompt), whose fragments will be one of streams
streamNext(c, streams) ==
    /\ calls[c].kind = "stream"
    /\ \/ /\ calls[c].pc = "created"
          /\ calls' = [calls EXCEPT ![c] = [@ EXCEPT !.pc = "yieldedSearching",
                                                     !.events = Append(@, Searching),
                                                     !.requested = @ + 1]]
       \/ /\ calls[c].pc = "yieldedSearching"
          /\ \E found \in retrieveContext(documents, calls[c].question, config.topK) :
                calls' = [calls EXCEPT ![c] = [@ EXCEPT !.pc = "retrieving", !.chunks = found,
                                                       !.requested = @ + 1]]
       \/ /\ calls[c].pc = "yieldedFound"
          /\ \E produced \in streams :
                calls' = [calls EXCEPT ![c] = [@ EXCEPT !.pc = "streaming", !.generated = @ + 1,
                                                       !.backend = produced,
                                                       !.requested = @ + 1,
                                                       !.prompt = createConversationPrompt(
                                                                     calls[c].question,
                                                                     formatContextChunks(calls[c].chunks),
                                                                     conversationHistory)]]
       \/ /\ calls[c].pc = "yieldedFragment"
          /\ calls' = [calls EXCEPT ![c] = [@ EXCEPT !.pc = "streaming", !.requested = @ + 1]]
       \/ /\ calls[c].pc = "yieldedFallback"
          /\ calls' = [calls EXCEPT ![c] = [@ EXCEPT !.pc = "returned", !.requested = @ + 1]]
    /\ UNCHANGED <<storeVars, configVars, conversationHistory>>

\* streamQuery after retrieval: yield the fallback answer or "Found N ..."
streamRetrieved(c) ==
    /\ calls[c].kind = "stream"
    /\ calls[c].pc = "retrieving"
    /\ calls' = [calls EXCEPT ![c] =
                    IF calls[c].chunks = <<>>
                    THEN [@ EXCEPT !.pc = "yieldedFallback",
                                   !.result = QueryResult(calls[c].question, <<>>, StreamFallback),
                                   !.events = Append(@, Event("answer", "fallback", 0,
                                                              StreamFallback))]
                    ELSE [@ EXCEPT !.pc = "yieldedFound",
                                   !.events = Append(@, Event("context", "found",
                                                              Len(calls[c].chunks), <<>>))]]
    /\ UNCHANGED <<storeVars, configVars, conversationHistory>>

\* The backend stream produced a fragment: fullAnswer += chunk; yield it
streamFragment(c, fragment) ==
    /\ calls[c].kind = "stream"
    /\ calls[c].pc = "streaming"
    /\ Len(calls[c].fullAnswer) < Len(calls[c].backend)
    /\ fragment = calls[c].backend[Len(calls[c].fullAnswer) + 1]
    /\ calls' = [calls EXCEPT ![c] =
                    [@ EXCEPT !.pc = "yieldedFragment", !.fullAnswer = Append(@, fragment),
                              !.events = Append(@, Event("answer", "fragment", 0,
                                                         <<fragment>>))]]
    /\ UNCHANGED <<storeVars, configVars, conversationHistory>>

\* A stream that is taken to have ended before its last fragment
streamEndEarly(c) ==
    /\ calls[c].kind = "stream"
    /\ calls[c].pc = "streaming"
    /\ conversationHistory' =
          pushHistory(conversationHistory, calls[c].question, calls[c].fullAnswer)
    /\ calls' = [calls EXCEPT ![c] =
                    [@ EXCEPT !.pc = "returned", !.appended = TRUE,
                              !.result = QueryResult(calls[c].question, calls[c].chunks,
                                                    calls[c].fullAnswer)]]
    /\ UNCHANGED <<storeVars, configVars>>

\* The backend stream ended: build the result, push the history, return
streamEnd(c) ==
    /\ calls[c].kind = "stream"
    /\ calls[c].pc = "streaming"
    /\ Len(calls[c].fullAnswer) = Len(calls[c].backend)
    /\ conversationHistory' =
          pushHistory(conversationHistory, calls[c].question, calls[c].fullAnswer)
    /\ calls' = [calls EXCEPT ![c] =
                    [@ EXCEPT !.pc = "returned", !.appended = TRUE,
                              !.result = QueryResult(calls[c].question, calls[c].chunks,
                                                    calls[c].fullAnswer)]]
    /\ UNCHANGED <<storeVars, configVars>>

\* A failure that keeps what was streamed so far
streamFailsKeepsPartial(c) ==
    /\ calls[c].kind = "stream"
    /\ calls[c].pc = "streaming"
    /\ conversationHistory' =
          pushHistory(conversationHistory, calls[c].question, calls[c].fullAnswer)
    /\ calls' = [calls EXCEPT ![c] = [@ EXCEPT !.pc = "threw"]]
    /\ UNCHANGED <<storeVars, configVars>>

\* The backend stream threw: streamQuery throws "Stream query failed: ..."
streamFails(c) ==
    /\ calls[c].kind = "stream"
    /\ calls[c].pc = "streaming"
    /\ calls' = [calls EXCEPT ![c] = [@ EXCEPT !.pc = "threw"]]
    /\ UNCHANGED <<storeVars, configVars, conversationHistory>>

\* A cancellation that keeps what was streamed so far
streamCancelKeepsPartial(c) ==
    /\ calls[c].kind = "stream"
    /\ Yielded(c)
    /\ conversationHistory' =
          pushHistory(conversationHistory, calls[c].question, calls[c].fullAnswer)
    /\ calls' = [calls EXCEPT ![c] = [@ EXCEPT !.pc = "cancelled"]]
    /\ UNCHANGED <<storeVars, configVars>>

\* The consumer stops at a yield: generator.return() ends the generator there
streamCancel(c) ==
    /\ calls[c].kind = "stream"
    /\ Yielded(c)
    /\ calls' = [calls EXCEPT ![c] = [@ EXCEPT !.pc = "cancelled"]]
    /\ UNCHANGED <<storeVars, configVars, conversationHistory>>

-----------------------------------------------------------------------------
(* The pipeline with calls in flight in both slots, any operation at any   *)
(* await or yield of another.  The backend's streams end after MaxFrags    *)
(* fragments.                                                               *)

\* The operation leaves the observation variables alone
Quiet == UNCHANGED <<lastOp, log, started, state>>

\* The observation of an operation: its name and the history it found
CallOp(op) == [NoOp EXCEPT !.op = op, !.pre = conversationHistory]

\* The observation of a push: lastOp.pre is the history pushed onto
Pushed == lastOp' = CallOp("push") /\ UNCHANGED <<log, started, state>>

Pair(question, answer) == [question |-> question, answer |-> answer]

Next ==
    \/ \E file \in Files : addDocument(file) /\ Quiet
    \/ \E file \in Files : removeDocument(file.id) /\ Quiet
    \/ clearHistory /\ Quiet
    \/ clearKnowledgeBase /\ Quiet
    \/ \E partial \in PipePartials : updateConfig(partial) /\ Quiet
    \/ \E c \in Slots, question \in Questions : queryStart(c, question) /\ Quiet
    \/ \E c \in Slots : queryRetrieved(c) /\ Quiet
    \/ \E c \in Slots, answer \in GenAnswers : queryGenerated(c, answer) /\ Pushed
    \/ \E c \in Slots : queryGenerateFails(c) /\ Quiet
    \/ \E c \in Slots, question \in Questions : streamStart(c, question) /\ Quiet
    \/ \E c \in Slots : streamNext(c, Streams) /\ Quiet
    \/ \E c \in Slots : streamRetrieved(c) /\ Quiet
    \/ \E c \in Slots, fragment \in Fragments : streamFragment(c, fragment) /\ Quiet
    \/ \E c \in Slots : streamEnd(c) /\ Pushed
    \/ \E c \in Slots : streamFails(c) /\ Quiet
    \/ \E c \in Slots : streamCancel(c) /\ Quiet

Spec == PipeInit /\ [][Next]_vars

-----------------------------------------------------------------------------
(* The pipeline used sequentially: one operation at a time, at most        *)
(* MaxCalls calls.  lastOp is the last operation started, with the history *)
(* it found, and log the pairs pushed since the history was last emptied.  *)

\* Questions of the sequential run: two that match the stored text "a", and
\* one that is not a string
SeqQuestions == {<<"a">>, <<"a", "a">>, Undefined}

\* The observation of a call: the history and the store it found
SeqOp(op) == [CallOp(op) EXCEPT !.arg = documents]

\* The observation of a clear: the history, the store and the configuration
\* it found
ClearOp(op) == [SeqOp(op) EXCEPT !.result = <<config, llmConfig, splitter>>]

SeqAddDocument ==
    /\ Free(1)
    /\ \E file \in Files : addDocument(file)
    /\ lastOp' = CallOp("addDocument")
    /\ UNCHANGED <<log, started, state>>

SeqRemoveDocument ==
    /\ Free(1)
    /\ \E file \in Files : removeDocument(file.id)
    /\ lastOp' = CallOp("removeDocument")
    /\ UNCHANGED <<log, started, state>>

SeqClearHistory ==
    /\ Free(1)
    /\ clearHistory
    /\ log' = <<>>
    /\ lastOp' = ClearOp("clearHistory")
    /\ UNCHANGED <<started, state>>

SeqClearKnowledgeBase ==
    /\ Free(1)
    /\ clearKnowledgeBase
    /\ log' = <<>>
    /\ lastOp' = ClearOp("clearKnowledgeBase")
    /\ UNCHANGED <<started, state>>

SeqUpdateConfig ==
    /\ Free(1)
    /\ \E partial \in PipePartials : updateConfig(partial)
    /\ lastOp' = CallOp("updateConfig")
    /\ UNCHANGED <<log, started, state>>

SeqGetStats ==
    /\ Free(1)
    /\ ReadOnly
    /\ lastOp' = [CallOp("getStats") EXCEPT !.result = getStats]
    /\ UNCHANGED <<log, started, state>>

SeqTestPipeline ==
    /\ Free(1)
    /\ ReadOnly
    /\ \E connected \in BOOLEAN :
          lastOp' = [CallOp("testPipeline") EXCEPT !.result = testPipeline(connected)]
    /\ UNCHANGED <<log, started, state>>

SeqQueryStart ==
    /\ started < MaxCalls
    /\ \E question \in SeqQuestions : queryStart(1, question)
    /\ lastOp' = SeqOp("query")
    /\ started' = started + 1
    /\ UNCHANGED state
    /\ UNCHANGED log

SeqStreamStart ==
    /\ started < MaxCalls
    /\ \E question \in SeqQuestions : streamStart(1, question)
    /\ lastOp' = SeqOp("streamQuery")
    /\ started' = started + 1
    /\ UNCHANGED state
    /\ UNCHANGED log

SeqQueryGenerated ==
    /\ \E answer \in GenAnswers :
          /\ queryGenerated(1, answer)
          /\ log' = Append(log, Pair(calls[1].question, answer))
    /\ UNCHANGED <<lastOp, started, state>>

SeqStreamEnd ==
    /\ streamEnd(1)
    /\ log' = Append(log, Pair(calls[1].question, calls[1].fullAnswer))
    /\ UNCHANGED <<lastOp, started, state>>

SeqNext ==
    \/ SeqAddDocument
    \/ SeqRemoveDocument
    \/ SeqClearHistory
    \/ SeqClearKnowledgeBase
    \/ SeqUpdateConfig
    \/ SeqGetStats
    \/ SeqTestPipeline
    \/ SeqQueryStart
    \/ SeqStreamStart
    \/ SeqQueryGenerated
    \/ SeqStreamEnd
    \/ queryRetrieved(1) /\ Quiet
    \/ queryGenerateFails(1) /\ Quiet
    \/ streamNext(1, Streams) /\ Quiet
    \/ streamRetrieved(1) /\ Quiet
    \/ \E fragment \in Fragments : streamFragment(1, fragment) /\ Quiet
    \/ streamFails(1) /\ Quiet
    \/ streamCancel(1) /\ Quiet

SpecSeq == PipeInit /\ [][SeqNext]_vars

-----------------------------------------------------------------------------
(* Properties of the conversation history (Spec, SpecSeq) *)

\* C1: whatever the interleaving of query, streamQuery, clearHistory,
\* clearKnowledgeBase and updateConfig, the conversation history never holds
\* more than five entries.
C1_HistoryAtMostFive == Len(conversationHistory) <= HistoryLimit

\* A call pushed onto a full history while the other slot's call was in flight
C1_Witness ==
    /\ lastOp.op = "push"
    /\ Len(lastOp.pre) = HistoryLimit
    /\ Len(conversationHistory) = HistoryLimit
    /\ \E c \in Slots : ~Free(c)

\* C2: after n sequential successful calls on a history that started empty,
\* the history is the pairs of the last min(n, 5) calls, in call order.
C2_FifoEviction ==
    conversationHistory = SliceLast(log, Min(Len(log), HistoryLimit))

\* Six successful calls since the history was empty, the first pair evicted
C2_Witness ==
    /\ Len(log) = HistoryLimit + 1
    /\ log[1] \notin Range(conversationHistory)
    /\ Len(conversationHistory) = HistoryLimit

\* C3: a streamQuery cancelled at a yield has appended nothing, and the
\* history is the one the call found.
C3_CancelLeavesHistory ==
    (lastOp.op = "streamQuery" /\ calls[1].pc = "cancelled") =>
        /\ ~calls[1].appended
        /\ conversationHistory = lastOp.pre

\* A stream cancelled after MaxFrags fragments, on a history that is not empty
C3_Witness ==
    /\ lastOp.op = "streamQuery"
    /\ calls[1].pc = "cancelled"
    /\ Len(calls[1].fullAnswer) = MaxFrags
    /\ conversationHistory # <<>>

\* C4: a query whose retrieval yields no chunk returns the fixed fallback
\* answer with empty context and sources, and never calls generate().
C4_EmptyRetrievalFallback ==
    (/\ lastOp.op = "query"
     /\ calls[1].pc = "returned"
     /\ retrieveContext(documents, calls[1].question, config.topK) = {<<>>})
    => /\ calls[1].result =
             [question |-> calls[1].question, context |-> <<>>,
              answer |-> QueryFallback, sources |-> <<>>]
       /\ calls[1].generated = 0
       /\ ~calls[1].appended

\* A query answered with the fallback on an empty store
C4_Witness ==
    /\ lastOp.op = "query"
    /\ calls[1].pc = "returned"
    /\ documents = <<>>
    /\ calls[1].result.answer = QueryFallback

-----------------------------------------------------------------------------
(* Properties of the vector store (SpecStore) *)

\* The cosine score of a chunk against a query
Score(query, chunk) ==
    cosineSimilarity(createSimpleEmbedding(query), createSimpleEmbedding(chunk.content))

Searched == lastOp.op = "similaritySearch"

DocOf(chunkId) == SubSeq(chunkId, 1, Len(chunkId) - 2)

\* No stored document's id is a proper prefix of another stored document's chunk ids
NoPrefixCollision(docs) ==
    \A d, e \in Range(docs) : DocOf(d.id) # DocOf(e.id) => ~StartsWith(e.id, DocOf(d.id))

Deleted == lastOp.op = "delete"

\* C6: delete(D) removes exactly the entries whose id starts with D and keeps
\* every other entry as it was and in its place; when no stored document id is
\* a proper prefix of another document's chunk ids and D is a stored document,
\* the removed entries are all and only the chunks created from D.
C6_DeleteExactlyPrefix ==
    Deleted =>
        LET pre == lastOp.pre
            D == lastOp.arg
            keptAt == {i \in 1..Len(pre) : ~StartsWith(pre[i].id, D)}
        IN  /\ Len(documents) = Cardinality(keptAt)
            /\ \A i \in keptAt :
                  documents[Cardinality({j \in keptAt : j <= i})] = pre[i]
            /\ \A d \in Range(documents) : ~StartsWith(d.id, D)
            /\ (NoPrefixCollision(pre) /\ \E d \in Range(pre) : DocOf(d.id) = D) =>
                  /\ \A d \in Range(documents) : DocOf(d.id) # D
                  /\ \A d \in Range(pre) : DocOf(d.id) # D => d \in Range(documents)

\* A delete of a stored document that removed its chunk and kept another document's
C6_Witness ==
    /\ Deleted
    /\ NoPrefixCollision(lastOp.pre)
    /\ \E d \in Range(lastOp.pre) : DocOf(d.id) = lastOp.arg
    /\ documents # <<>>
    /\ Len(documents) < Len(lastOp.pre)

\* C7: on an empty store every similaritySearch returns [] and does not
\* throw, also when the store was emptied by delete or clear.
C7_EmptyStoreSearch ==
    /\ (Searched /\ documents = <<>>) => lastOp.result = <<>>
    /\ documents = <<>> =>
          \A query \in Queries, k \in Ks : similaritySearch(documents, query, k) = {<<>>}

\* The store was emptied by a delete
C7_Witness ==
    /\ Deleted
    /\ lastOp.pre # <<>>
    /\ documents = <<>>

-----------------------------------------------------------------------------
(* Properties of the configuration (SpecConfig) *)

Updated == lastOp.op = "updateConfig"

\* C8: updateConfig(partial) throws and leaves the pipeline's config, the
\* provider's config and the splitter settings as they were when validation
\* of the merged config reports an error; when validation passes (and the
\* splitter accepts its settings) all three hold the merged config.
C8_UpdateConfigAtomic ==
    Updated =>
        LET merged == Merge(lastOp.pre[1], lastOp.arg)
        IN  /\ validateConfig(merged) # <<>> =>
                  /\ lastOp.threw
                  /\ <<config, llmConfig, splitter>> = lastOp.pre
            /\ <<config, llmConfig, splitter>> # lastOp.pre => validateConfig(merged) = <<>>
            /\ (validateConfig(merged) = <<>> /\ ~SplitterThrows(merged)) =>
                  /\ ~lastOp.threw
                  /\ config = merged
                  /\ llmConfig = merged
                  /\ splitter = SplitterOf(merged)

\* A rejected update that also carried a valid change of another field
C8_Witness ==
    /\ Updated
    /\ validateConfig(Merge(lastOp.pre[1], lastOp.arg)) # <<>>
    /\ \E f \in DOMAIN lastOp.arg :
          /\ lastOp.arg[f] # lastOp.pre[1][f]
          /\ validateConfig(Merge(lastOp.pre[1], [g \in {f} |-> lastOp.arg[g]])) = <<>>

\* C9: every config a pipeline holds has chunkOverlap < chunkSize.
C9_OverlapBelowChunkSize ==
    constructed => config.chunkOverlap < config.chunkSize

Configured == lastOp.op \in {"construct", "updateConfig"}

\* The config a constructor or updateConfig call asks for
Candidate ==
    Merge(IF lastOp.op = "construct" THEN DEFAULT_RAG_CONFIG ELSE lastOp.pre[1], lastOp.arg)

\* C10: every config the constructor or updateConfig accepts has temperature
\* in [0, 1], maxTokens > 0, topK >= 1 and chunkSize >= 100, and a config
\* that breaks one of these is rejected.
C10_AcceptedConfigInRange ==
    Configured =>
        /\ ~lastOp.threw =>
              /\ config.temperature >= 0 /\ config.temperature <= 10
              /\ config.maxTokens > 0
              /\ config.topK >= 1
              /\ config.chunkSize >= 100
        /\ (\/ Candidate.temperature < 0 \/ Candidate.temperature > 10
            \/ Candidate.maxTokens = 0
            \/ Candidate.topK = 0
            \/ Candidate.chunkSize < 100) => lastOp.threw

\* The fields of a config that break the documented ranges: the key is
\* blank or absent, temperature outside [0, 1], maxTokens <= 0, topK < 1,
\* chunkSize < 100, chunkOverlap >= chunkSize
InvalidFields(c) ==
    {f \in ConfigFields :
        \/ f = "groqApiKey" /\ (~Has(c, f) \/ Trim(c.groqApiKey) = <<>>)
        \/ f = "temperature" /\ (c.temperature < 0 \/ c.temperature > 10)
        \/ f = "maxTokens" /\ c.maxTokens < 1
        \/ f = "topK" /\ c.topK < 1
        \/ f = "chunkSize" /\ c.chunkSize < 100
        \/ f = "chunkOverlap" /\ c.chunkOverlap >= c.chunkSize}

\* C11: when several fields of the config are invalid the constructor or
\* updateConfig call throws one error that holds a message for each invalid
\* field, and no component is constructed or updated.
C11_AggregatedValidation ==
    (Configured /\ Cardinality(InvalidFields(Candidate)) >= 2) =>
        /\ lastOp.threw
        /\ Len(lastOp.result) = Cardinality(InvalidFields(Candidate))
        /\ <<config, llmConfig, splitter>> = lastOp.pre

-----------------------------------------------------------------------------
(* addDocuments when an embedding fails (SpecStore) *)

AddFailed == lastOp.op = "addDocuments" /\ lastOp.threw

\* The chunks before the failing one are in the store as a complete call
\* with just them would have left them, and nothing else has changed
PartialCommit ==
    documents = addDocuments(lastOp.pre, SubSeq(lastOp.arg, 1, FailsAt(lastOp.arg) - 1))

\* C12: when the embedding of the chunk at position i fails, addDocuments
\* throws an error that names that chunk, the chunks before position i are in
\* the store and the failing chunk is not.
C12_PartialCommitNamesChunk ==
    AddFailed =>
        /\ PartialCommit
        /\ \A d \in Range(documents) : d.content # Undefined
        /\ lastOp.arg[FailsAt(lastOp.arg)].id \in lastOp.result.names

-----------------------------------------------------------------------------
(* Failures during a call (SpecSeq) *)

InCall == lastOp.op \in {"query", "streamQuery"}

\* The fallback result of the call in slot 1
Fallback ==
    QueryResult(calls[1].question, <<>>,
                IF calls[1].kind = "query" THEN QueryFallback ELSE StreamFallback)

\* C13: when the store's similaritySearch throws during query or
\* streamQuery the call does not fail: it ends with the fallback result,
\* generate() and stream() are not called, and the store and the history are
\* as the call found them.
C13_RetrievalErrorFallback ==
    (InCall /\ similaritySearchThrows(lastOp.arg, calls[1].question)) =>
        /\ calls[1].pc # "threw"
        /\ calls[1].generated = 0
        /\ ~calls[1].appended
        /\ calls[1].chunks = <<>>
        /\ calls[1].pc = "returned" => calls[1].result = Fallback
        /\ documents = lastOp.arg
        /\ conversationHistory = lastOp.pre

\* A query whose search threw on a populated store has returned the fallback
C13_Witness ==
    /\ lastOp.op = "query"
    /\ similaritySearchThrows(lastOp.arg, calls[1].question)
    /\ calls[1].pc = "returned"
    /\ calls[1].result.answer = QueryFallback
    /\ conversationHistory # <<>>

\* C14: when generate() throws during query, or the backend stream throws
\* during streamQuery after any number of fragments, the call throws and the
\* store and the history are as the call found them.
C14_GenerationErrorLeavesState ==
    (InCall /\ calls[1].pc = "threw") =>
        /\ calls[1].generated = 1
        /\ ~calls[1].appended
        /\ documents = lastOp.arg
        /\ conversationHistory = lastOp.pre

\* A stream that threw after MaxFrags fragments, on a history that is not empty
C14_Witness ==
    /\ lastOp.op = "streamQuery"
    /\ calls[1].pc = "threw"
    /\ Len(calls[1].fullAnswer) = MaxFrags
    /\ conversationHistory # <<>>

-----------------------------------------------------------------------------
(* The state machine of a call (Spec) *)

\* The state of a call.  query passes EMPTY and FOUND without an await; a
\* generator the consumer has returned is CANCELLED.
Phase(call) ==
    CASE call.pc = "idle" -> "NONE"
      [] call.pc = "created" -> "INIT"
      [] call.pc \in {"yieldedSearching", "retrieving"} -> "RETRIEVING"
      [] call.pc = "yieldedFallback" -> "EMPTY"
      [] call.pc = "yieldedFound" -> "FOUND"
      [] call.pc \in {"generating", "streaming", "yieldedFragment"} -> "GENERATING"
      [] call.pc = "returned" -> "DONE"
      [] call.pc = "threw" -> "ERROR"
      [] call.pc = "cancelled" -> "CANCELLED"

\* The steps a call may take, with the number of backend invocations after it
PhaseStep(old, new) ==
    LET from == Phase(old)
        to == Phase(new)
    IN  \/ /\ from \in {"NONE", "DONE", "ERROR", "CANCELLED"}      \* a new call
           /\ to \in {"INIT", "RETRIEVING"}
           /\ new.generated = 0
        \/ from = "INIT" /\ to = "RETRIEVING" /\ new.generated = 0
        \/ from = "RETRIEVING" /\ to = "RETRIEVING" /\ new.generated = 0
        \/ /\ from = "RETRIEVING" /\ to \in {"EMPTY", "DONE"}
           /\ new.chunks = <<>> /\ new.generated = 0
        \/ from = "EMPTY" /\ to = "DONE" /\ new.generated = 0
        \/ /\ from = "RETRIEVING" /\ to = "FOUND"
           /\ new.chunks # <<>> /\ new.generated = 0
        \/ /\ from \in {"RETRIEVING", "FOUND"} /\ to = "GENERATING"
           /\ new.chunks # <<>> /\ old.generated = 0 /\ new.generated = 1
        \/ /\ from = "GENERATING" /\ to \in {"GENERATING", "DONE", "ERROR"}
           /\ new.generated = 1
        \/ /\ from \in {"RETRIEVING", "EMPTY", "FOUND", "GENERATING"}
           /\ old.kind = "stream" /\ to = "CANCELLED"
           /\ new.generated = old.generated

\* The number of backend invocations of a call: at most one, and in a call
\* that is done none when retrieval was empty and one when chunks were found
InvokedOnce ==
    \A c \in Slots :
        /\ calls[c].generated <= 1
        /\ Phase(calls[c]) = "DONE" =>
              calls[c].generated = (IF calls[c].chunks = <<>> THEN 0 ELSE 1)

\* C15, as stated: every call goes INIT -> RETRIEVING -> (EMPTY -> DONE |
\* FOUND -> GENERATING -> DONE) with ERROR as the only other exit; the backend
\* is invoked zero times when retrieval is empty, once when chunks were
\* found, and never again after it failed.
C15_OnlyErrorExit ==
    /\ []InvokedOnce
    /\ [][\A c \in Slots :
            calls'[c] # calls[c] =>
                PhaseStep(calls[c], calls'[c]) /\ Phase(calls'[c]) # "CANCELLED"]_vars

\* C15, amended: every call goes INIT -> RETRIEVING -> (EMPTY -> DONE | FOUND
\* -> GENERATING -> DONE), leaving only by an error or, for streamQuery, by
\* the consumer's cancellation at a yield; the backend is invoked zero times
\* when retrieval is empty, once when chunks were found, and never again
\* after it failed.
C15_CallStateMachine ==
    /\ []InvokedOnce
    /\ [][\A c \in Slots : calls'[c] # calls[c] => PhaseStep(calls[c], calls'[c])]_vars

\* One call is done after one invocation of the backend, the other has
\* failed after one
C15_Witness ==
    /\ Phase(calls[1]) = "DONE" /\ calls[1].generated = 1
    /\ Phase(calls[2]) = "ERROR" /\ calls[2].generated = 1
    /\ calls[2].kind = "stream"

-----------------------------------------------------------------------------
(* One streamQuery call followed step by step (SpecStream): the backend    *)
(* streams any sequence of up to MaxFrags fragments "x" and "y"            *)

StreamFragments == {"x", "y"}

AllStreams == UNION {[1..n -> StreamFragments] : n \in 0..MaxFrags}

StreamStart ==
    /\ started < MaxStreams
    /\ streamStart(1, <<"a">>)
    /\ lastOp' = SeqOp("streamQuery")
    /\ started' = started + 1
    /\ UNCHANGED state
    /\ UNCHANGED log

StreamNext ==
    \/ \E file \in Files : addDocument(file) /\ Quiet
    \/ StreamStart
    \/ streamNext(1, AllStreams) /\ Quiet
    \/ streamRetrieved(1) /\ Quiet
    \/ \E fragment \in StreamFragments : streamFragment(1, fragment) /\ Quiet
    \/ streamEnd(1) /\ Quiet
    \/ streamFails(1) /\ Quiet
    \/ streamCancel(1) /\ Quiet

SpecStream == PipeInit /\ [][StreamNext]_vars

\* C16: the items of a streamQuery call come in order: the "searching"
\* notification, then either the fallback answer alone or the "found N"
\* notification followed by the backend's fragments in the backend's order;
\* the result is returned and the history entry pushed only when every
\* fragment of the backend has been yielded.
C16_StreamEventOrder ==
    LET call == calls[1]
        ev == call.events
    IN  /\ call.pc = "created" => ev = <<>>
        /\ Len(ev) <= 2 + Len(call.backend)
        /\ Len(ev) >= 1 => ev[1] = Searching
        /\ Len(ev) >= 2 =>
              \/ /\ ev[2] = Event("answer", "fallback", 0, StreamFallback)
                 /\ Len(ev) = 2
                 /\ call.chunks = <<>>
              \/ /\ ev[2] = Event("context", "found", Len(call.chunks), <<>>)
                 /\ call.chunks # <<>>
                 /\ \A i \in 3..Len(ev) :
                       ev[i] = Event("answer", "fragment", 0, <<call.backend[i - 2]>>)
        /\ call.pc = "returned" =>
              \/ call.chunks = <<>> /\ Len(ev) = 2 /\ ~call.appended
              \/ /\ call.chunks # <<>>
                 /\ Len(ev) = 2 + Len(call.backend)
                 /\ call.result.answer = call.backend
                 /\ call.appended
        /\ call.appended =>
              /\ call.pc = "returned"
              /\ conversationHistory = pushHistory(lastOp.pre, call.question, call.backend)

\* A stream of two different fragments has been yielded in full and has returned
C16_Witness ==
    /\ calls[1].pc = "returned"
    /\ calls[1].backend = <<"x", "y">>
    /\ Len(calls[1].events) = 4
    /\ calls[1].appended


\* Fragments the pipeline has taken from the backend stream: each one is
\* added to fullAnswer as soon as it arrives
Pulled(call) == Len(call.fullAnswer)

\* The retrieval of a streamQuery call has started
RetrievalStarted(call) == call.pc = "retrieving" \/ Len(call.events) >= 2

\* C17: streamQuery is consumer-paced: at every point of a call the number of
\* fragments pulled from the backend stream, and the number of items yielded,
\* is at most the number of items the consumer has requested; the retrieval
\* does not start before the second request (the one following "searching")
\* and the backend stream is not opened before the third.
C17_ConsumerPaced ==
    LET call == calls[1]
    IN  call.kind = "stream" =>
           /\ Pulled(call) <= call.requested
           /\ Len(call.events) <= call.requested
           /\ RetrievalStarted(call) => call.requested >= 2
           /\ call.generated >= 1 => call.requested >= 3
           /\ Pulled(call) >= 1 => Pulled(call) + 2 <= call.requested

\* Every fragment of a full-length stream has been pulled, one per request
C17_Witness ==
    /\ calls[1].kind = "stream"
    /\ calls[1].pc = "yieldedFragment"
    /\ Pulled(calls[1]) = MaxFrags
    /\ calls[1].requested = MaxFrags + 2

-----------------------------------------------------------------------------
(* The results of query and streamQuery over stores whose chunks share or  *)
(* differ in their source document: one call at a time, at most MaxStreams *)
(* calls                                                                   *)

\* A two-chunk document "f", a one-chunk document "f" and a one-chunk
\* document "g"; every chunk matches the question
ResultFiles ==
    {[id |-> <<1>>, texts |-> <<<<"a">>, <<"a">>>>],
     [id |-> <<1, 2>>, texts |-> <<<<"a">>>>],
     [id |-> <<2>>, texts |-> <<<<"a">>>>]}

ResultAddDocument ==
    /\ Free(1)
    /\ \E file \in ResultFiles : addDocument(file)
    /\ Quiet

ResultRemoveDocument ==
    /\ Free(1)
    /\ \E file \in ResultFiles : removeDocument(file.id)
    /\ Quiet

ResultQueryStart ==
    /\ started < MaxStreams
    /\ queryStart(1, <<"a">>)
    /\ lastOp' = SeqOp("query")
    /\ started' = started + 1
    /\ UNCHANGED state
    /\ UNCHANGED log

ResultStreamStart ==
    /\ started < MaxStreams
    /\ streamStart(1, <<"a">>)
    /\ lastOp' = SeqOp("streamQuery")
    /\ started' = started + 1
    /\ UNCHANGED state
    /\ UNCHANGED log

ResultNext ==
    \/ ResultAddDocument
    \/ ResultRemoveDocument
    \/ ResultQueryStart
    \/ ResultStreamStart
    \/ queryRetrieved(1) /\ Quiet
    \/ \E answer \in GenAnswers : queryGenerated(1, answer) /\ Quiet
    \/ queryGenerateFails(1) /\ Quiet
    \/ streamNext(1, Streams) /\ Quiet
    \/ streamRetrieved(1) /\ Quiet
    \/ \E fragment \in Fragments : streamFragment(1, fragment) /\ Quiet
    \/ streamEnd(1) /\ Quiet
    \/ streamFails(1) /\ Quiet
    \/ streamCancel(1) /\ Quiet

SpecResult == PipeInit /\ [][ResultNext]_vars

\* The call has built its RAGQuery
HasResult(call) == call.result # None

\* metadata.source of the retrieved chunks
ChunkSources(chunks) == {chunks[i].metadata.source : i \in 1..Len(chunks)}

\* C18: in every result built by query or streamQuery, sources names each
\* source document at most once, the names in sources are exactly the
\* metadata.source values of the retrieved chunks, context has one entry per
\* retrieved chunk, and sources is empty when context is empty.
C18_SourcesDistinct ==
    LET call == calls[1]
        sources == call.result.sources
    IN  HasResult(call) =>
           /\ \A i, j \in 1..Len(sources) : i # j => sources[i] # sources[j]
           /\ Range(sources) = ChunkSources(call.chunks)
           /\ Len(call.result.context) = Len(call.chunks)
           /\ call.result.context = <<>> => sources = <<>>

\* A query returned two chunks of the same document
C18_Witness ==
    /\ calls[1].kind = "query"
    /\ HasResult(calls[1])
    /\ Len(calls[1].chunks) = 2
    /\ calls[1].result.sources = <<SourceOf(<<1>>)>>

\* C19: when clearKnowledgeBase() returns, the vector store and the
\* conversation history are empty and the configuration is as it was; when
\* clearHistory() returns, the history is empty and the vector store and the
\* configuration are as they were.
C19_ClearFrame ==
    /\ lastOp.op = "clearKnowledgeBase" =>
          /\ documents = <<>>
          /\ conversationHistory = <<>>
          /\ <<config, llmConfig, splitter>> = lastOp.result
    /\ lastOp.op = "clearHistory" =>
          /\ conversationHistory = <<>>
          /\ documents = lastOp.arg
          /\ <<config, llmConfig, splitter>> = lastOp.result

\* clearKnowledgeBase() was called with documents in the store, pairs in the
\* history and a configuration that differs from the default
C19_Witness ==
    /\ lastOp.op = "clearKnowledgeBase"
    /\ lastOp.arg # <<>>
    /\ lastOp.pre # <<>>
    /\ config.topK # DEFAULT_RAG_CONFIG.topK

\* C20: the prompt given to generate() or stream() by a call carries the
\* call's question, one citation per retrieved chunk (numbered from 1, with
\* the chunk's source and content, in retrieval order), and exactly the last
\* min(3, |history|) turns of the history the call found, oldest first; no
\* earlier turn is part of it.
C20_PromptLastThreeTurns ==
    LET call == calls[1]
        history == lastOp.pre
        n == Min(3, Len(history))
    IN  lastOp.op \in {"query", "streamQuery"} /\ call.generated >= 1 =>
           /\ call.prompt.question = call.question
           /\ Len(call.prompt.context) = Len(call.chunks)
           /\ \A i \in 1..Len(call.chunks) :
                 /\ call.prompt.context[i].label = i
                 /\ call.prompt.context[i].source = call.chunks[i].metadata.source
                 /\ call.prompt.context[i].content = call.chunks[i].content
           /\ Len(call.prompt.turns) = n
           /\ \A i \in 1..n : call.prompt.turns[i] = history[Len(history) - n + i]

\* A prompt was built over a history of more than three turns whose oldest
\* turn differs from each of the last three
C20_Witness ==
    /\ lastOp.op \in {"query", "streamQuery"}
    /\ calls[1].generated >= 1
    /\ Len(lastOp.pre) > 3
    /\ \A i \in 1..Len(calls[1].prompt.turns) : calls[1].prompt.turns[i] # lastOp.pre[1]

-----------------------------------------------------------------------------
(* addDocument(file) with files that fail at each stage of processDocument *)
(* (document-processor.ts)                                                 *)

\* Object.keys(SUPPORTED_FILE_TYPES)
SUPPORTED_FILE_TYPES ==
    {"application/pdf", "text/plain",
     "application/vnd.openxmlformats-officedocument.wordprocessingml.document"}

\* maxSize of validateFile, in bytes
MaxFileSize == 10 * 1024 * 1024

\* validateFile: the stage it throws at, or "ok"
validateFile(file) ==
    IF file.type \notin SUPPORTED_FILE_TYPES THEN "type"
    ELSE IF file.size > MaxFileSize THEN "size"
    ELSE IF file.size = 0 THEN "empty"
    ELSE "ok"

\* No Document object has been created
NoDocument == [exists |-> FALSE, status |-> "none", chunks |-> <<>>]

\* The Document object of processDocument
Document(status, chunks) == [exists |-> TRUE, status |-> status, chunks |-> chunks]

\* A processDocument whose catch block does not mark the document
processDocumentNoMark(file, id) ==
    IF validateFile(file) # "ok"
    THEN [threw |-> TRUE, stage |-> "validation", document |-> NoDocument]
    ELSE IF file.extract.fails
    THEN [threw |-> TRUE, stage |-> "extraction", document |-> Document("processing", <<>>)]
    ELSE IF Trim(file.extract.text) = <<>>
    THEN [threw |-> TRUE, stage |-> "no text", document |-> Document("processing", <<>>)]
    ELSE IF file.split.fails
    THEN [threw |-> TRUE, stage |-> "chunking", document |-> Document("processing", <<>>)]
    ELSE [threw |-> FALSE, stage |-> "done",
          document |-> Document("ready", createChunks(id, file.split.texts))]

\* processDocument(file): validateFile throws before the Document object
\* exists; a failure of extractText, of the trim() test or of createChunks
\* sets status 'error' and rethrows; otherwise the document is 'ready'
processDocument(file, id) ==
    IF validateFile(file) # "ok"
    THEN [threw |-> TRUE, stage |-> "validation", document |-> NoDocument]
    ELSE IF file.extract.fails
    THEN [threw |-> TRUE, stage |-> "extraction", document |-> Document("error", <<>>)]
    ELSE IF Trim(file.extract.text) = <<>>
    THEN [threw |-> TRUE, stage |-> "no text", document |-> Document("error", <<>>)]
    ELSE IF file.split.fails
    THEN [threw |-> TRUE, stage |-> "chunking", document |-> Document("error", <<>>)]
    ELSE [threw |-> FALSE, stage |-> "done",
          document |-> Document("ready", createChunks(id, file.split.texts))]

\* What the parser gives for a file: an error or the text
Extractions ==
    {[fails |-> TRUE, text |-> <<>>]}
    \cup {[fails |-> FALSE, text |-> t] : t \in {<<>>, <<" ">>, <<"a">>}}

\* What the text splitter gives: an error or the pieces
Splits ==
    {[fails |-> TRUE, texts |-> <<>>]}
    \cup {[fails |-> FALSE, texts |-> t] : t \in {<<<<"a">>>>, <<<<"a">>, <<"b">>>>}}

\* File objects: type, size in bytes, and what parser and splitter do with it
UploadFiles ==
    [type : {"text/plain", "image/png"},
     size : {0, 1, MaxFileSize, MaxFileSize + 1},
     extract : Extractions,
     split : Splits]

\* pipeline.addDocument(file): processDocument, then addDocuments of the
\* chunks; an error is rethrown as "Failed to add document: ..."
UploadAddDocument(file, id) ==
    LET processed == processDocument(file, id)
        chunks == processed.document.chunks
    IN  /\ Len(addDocuments(documents, chunks)) <= MaxStore
        /\ documents' = IF processed.threw THEN documents
                        ELSE addDocuments(documents, chunks)
        /\ lastOp' = [NoOp EXCEPT !.op = "addDocument", !.arg = file, !.pre = documents,
                                  !.result = processed, !.threw = processed.threw]
        /\ UNCHANGED <<configVars, pipeVars>>

UploadRemoveDocument(id) ==
    /\ removeDocument(id)
    /\ lastOp' = [NoOp EXCEPT !.op = "removeDocument"]
    /\ UNCHANGED <<log, started, state>>

UploadNext ==
    \/ \E file \in UploadFiles, id \in DocIds : UploadAddDocument(file, id)
    \/ \E id \in DocIds : UploadRemoveDocument(id)

SpecUpload == PipeInit /\ [][UploadNext]_vars

\* addDocument failed before the vector store was reached
FailedUpload ==
    /\ lastOp.op = "addDocument"
    /\ lastOp.result.stage \in {"validation", "extraction", "no text", "chunking"}

\* C21, as stated: when addDocument(file) fails at validation, extraction,
\* empty text or chunking, the error reaches the caller, the document's
\* status is 'error', and the store is as before the call.
C21_FailedDocumentMarkedError ==
    FailedUpload =>
        /\ lastOp.threw
        /\ lastOp.result.document.exists
        /\ lastOp.result.document.status = "error"
        /\ documents = lastOp.pre

\* C21, amended: when addDocument(file) fails at validation, extraction,
\* empty text or chunking, the error reaches the caller, no document is
\* 'ready', and the store is as before the call; a file rejected at
\* validation has no Document object, after the other failures the
\* Document's status is 'error'.
C21_FailedAddLeavesStore ==
    FailedUpload =>
        /\ lastOp.threw
        /\ lastOp.result.document.status # "ready"
        /\ lastOp.result.stage = "validation" => ~lastOp.result.document.exists
        /\ lastOp.result.stage # "validation" =>
              /\ lastOp.result.document.exists
              /\ lastOp.result.document.status = "error"
        /\ documents = lastOp.pre

\* The chunking of a valid file failed while the store held chunks
C21_Witness ==
    /\ FailedUpload
    /\ lastOp.result.stage = "chunking"
    /\ lastOp.result.document.status = "error"
    /\ documents # <<>>

-----------------------------------------------------------------------------
(* advancedSearch applied to stores that hold chunks of two documents      *)

\* Chunk contents of lengths 1 and 2
AdvTexts == {<<"a">>, <<"a", "b">>, <<"b">>}

\* similarity > p / 100
AboveMin(x, p) == ~x.nan /\ 10000 * x.dot * x.dot > p * p * x.mm

\* Default of the option k
DefaultK == 4

\* Default of the option minSimilarity, in hundredths
DefaultMinSimilarity == 10

AdvOptionFields == {"k", "minSimilarity", "sourceFilter", "maxChunkLength"}

\* Option values: minSimilarity in hundredths
AdvOptionValues ==
    [k : 0..MaxK,
     minSimilarity : {50, 90},
     sourceFilter : {<<>>, <<SourceOf(<<1>>)>>},
     maxChunkLength : {0, 1}]

\* The options objects: any of the four options may be absent
AdvOptions ==
    {[f \in S |-> r[f]] : r \in AdvOptionValues, S \in SUBSET AdvOptionFields}

\* The option with its destructuring default
OptionK(options) == IF Has(options, "k") THEN options.k ELSE DefaultK

OptionMinSimilarity(options) ==
    IF Has(options, "minSimilarity") THEN options.minSimilarity ELSE DefaultMinSimilarity

\* `sourceFilter && sourceFilter.length > 0`
FilterBySource(options) == Has(options, "sourceFilter") /\ Len(options.sourceFilter) > 0

\* `if (maxChunkLength)`: absent and 0 are both skipped
FilterByLength(options) == Has(options, "maxChunkLength") /\ options.maxChunkLength # 0

\* The filters and the final slice(0, k) applied to the raw results
advancedFilter(raw, options) ==
    LET bySource == IF FilterBySource(options)
                    THEN SelectSeqBy(raw, {c \in Range(raw) :
                                              c.metadata.source \in Range(options.sourceFilter)})
                    ELSE raw
        byLength == IF FilterByLength(options)
                    THEN SelectSeqBy(bySource, {c \in Range(bySource) :
                                                  Len(c.content) <= options.maxChunkLength})
                    ELSE bySource
    IN  SliceTo(byLength, OptionK(options))

\* advancedSearch: the pairs (raw results of similaritySearch(query, 2k),
\* chunks returned) the call may produce; minSimilarity is read from the
\* options and not used
advancedSearch(docs, query, options) ==
    {[raw |-> raw, chunks |-> advancedFilter(raw, options)] :
        raw \in similaritySearch(docs, query, OptionK(options) * 2)}

\* Stores of up to MaxChunks chunks: some of document <<1>>, then the chunk
\* "b" of document <<2>>
AdvStores ==
    {addDocuments(addDocuments(<<>>, createChunks(<<1>>, first)),
                  createChunks(<<2>>, <<<<"b">>>>)) :
        first \in UNION {[1..n -> AdvTexts] : n \in 1..(MaxChunks - 1)}}

\* A query whose scores against "a", "ab" and "b" all differ
AdvQueries == {<<"a", "a", "b">>}

AdvInit ==
    /\ documents \in AdvStores
    /\ lastOp = NoOp
    /\ NoPipeline

StoreAdvancedSearch(query, options) ==
    /\ \E r \in advancedSearch(documents, query, options) :
          lastOp' = [NoOp EXCEPT !.op = "advancedSearch", !.arg = query,
                                 !.k = OptionK(options), !.pre = options, !.result = r]
    /\ UNCHANGED <<storeVars, configVars, pipeVars>>

AdvNext ==
    \E query \in AdvQueries, options \in AdvOptions : StoreAdvancedSearch(query, options)

SpecAdvanced == AdvInit /\ [][AdvNext]_vars

AdvSearched == lastOp.op = "advancedSearch"

\* The place of a chunk in a list of chunks with different ids
PlaceIn(chunks, chunk) == CHOOSE i \in 1..Len(chunks) : chunks[i] = chunk

\* C22: advancedSearch(query, {k, sourceFilter, maxChunkLength}) returns at
\* most k chunks, each among the results of similaritySearch(query, 2k), with
\* source in a non-empty sourceFilter and content no longer than a given
\* maxChunkLength, in the order similaritySearch ranks them.
C22_AdvancedSearchFilters ==
    AdvSearched =>
        LET r == lastOp.result.chunks
            raw == lastOp.result.raw
            options == lastOp.pre
        IN  /\ Len(r) <= lastOp.k
            /\ Len(raw) <= 2 * lastOp.k
            /\ \A i \in 1..Len(r) : r[i] \in Range(raw)
            /\ \A i, j \in 1..Len(r) : i < j => PlaceIn(raw, r[i]) < PlaceIn(raw, r[j])
            /\ (Has(options, "sourceFilter") /\ options.sourceFilter # <<>>) =>
                  \A i \in 1..Len(r) : r[i].metadata.source \in Range(options.sourceFilter)
            /\ Has(options, "maxChunkLength") =>
                  \A i \in 1..Len(r) : Len(r[i].content) <= options.maxChunkLength

\* What advancedSearch does keep: at most k chunks, a subsequence of the raw
\* results, filtered by a non-empty sourceFilter and by a maxChunkLength
\* other than 0
AdvancedSearchApplied ==
    AdvSearched =>
        LET r == lastOp.result.chunks
            raw == lastOp.result.raw
            options == lastOp.pre
        IN  /\ Len(r) <= lastOp.k
            /\ Len(raw) <= 2 * lastOp.k
            /\ \A i \in 1..Len(r) : r[i] \in Range(raw)
            /\ \A i, j \in 1..Len(r) : i < j => PlaceIn(raw, r[i]) < PlaceIn(raw, r[j])
            /\ FilterBySource(options) =>
                  \A i \in 1..Len(r) : r[i].metadata.source \in Range(options.sourceFilter)
            /\ FilterByLength(options) =>
                  \A i \in 1..Len(r) : Len(r[i].content) <= options.maxChunkLength

\* C27: every chunk advancedSearch returns has a cosine score greater than
\* the minSimilarity the caller passed (0.1 when none is passed).
C27_MinSimilarityHonoured ==
    AdvSearched =>
        \A i \in 1..Len(lastOp.result.chunks) :
            AboveMin(Score(lastOp.arg, lastOp.result.chunks[i]),
                     OptionMinSimilarity(lastOp.pre))

\* What advancedSearch does guarantee: the fixed threshold 0.1 of
\* similaritySearch, whatever minSimilarity is
AdvancedSearchFixedThreshold ==
    AdvSearched =>
        \A i \in 1..Len(lastOp.result.chunks) :
            AboveMin(Score(lastOp.arg, lastOp.result.chunks[i]), DefaultMinSimilarity)

\* The reference procedure on one sorted list: drop the entries that are not
\* above 0.1, then take the first k
ReferenceChunks(sorted, k) ==
    LET kept == SelectSeqBy(sorted, {x \in Range(sorted) : AboveThreshold(x.similarity)})
        top == SliceTo(kept, k)
    IN  [i \in 1..Len(top) |-> top[i].chunk]

\* The sorted lists the search of lastOp may have gone through
SortedLists ==
    SortOutcomes(Similarities(documents, createSimpleEmbedding(lastOp.arg)))

NoEmptyChunk == \A i \in 1..Len(documents) : documents[i].content # <<>>

queryResult(question, found, answer) ==
    IF found = <<>> THEN QueryResult(question, <<>>, QueryFallback)
    ELSE QueryResult(question, found, answer)

\* The history query leaves
queryHistory(history, question, found, answer) ==
    IF found = <<>> THEN history ELSE pushHistory(history, question, answer)

\* A call of the sequential run has returned its result
Returned(kind) ==
    /\ lastOp.op = kind
    /\ calls[1].pc = "returned"

\* C24: a fully consumed streamQuery returns what query returns for the same
\* store, history, config and question when the backend's fragments make up
\* the text generate() returns: the same context, sources and answer (the
\* same fallback answer when nothing is retrieved), and it leaves the history
\* query leaves.
C24_StreamSameAsQuery ==
    Returned("streamQuery") =>
        LET call == calls[1]
        IN  /\ call.chunks \in retrieveContext(lastOp.arg, call.question, config.topK)
            /\ call.result = queryResult(call.question, call.chunks, call.fullAnswer)
            /\ conversationHistory =
                  queryHistory(lastOp.pre, call.question, call.chunks, call.fullAnswer)

\* What the two methods do share: retrieval, context, sources, prompt, the
\* generated answer and the history; on the fallback path the result's
\* context and sources are empty and the history is left alone in both
StreamAgreesButFallbackText ==
    /\ Returned("query") =>
          LET call == calls[1]
          IN  /\ call.chunks \in retrieveContext(lastOp.arg, call.question, config.topK)
              /\ call.result = queryResult(call.question, call.chunks, call.fullAnswer)
              /\ conversationHistory =
                    queryHistory(lastOp.pre, call.question, call.chunks, call.fullAnswer)
    /\ Returned("streamQuery") =>
          LET call == calls[1]
              expected == queryResult(call.question, call.chunks, call.fullAnswer)
          IN  /\ call.chunks \in retrieveContext(lastOp.arg, call.question, config.topK)
              /\ call.result.context = expected.context
              /\ call.result.sources = expected.sources
              /\ call.result.question = expected.question
              /\ call.chunks # <<>> =>
                    /\ call.result.answer = expected.answer
                    /\ call.prompt = createConversationPrompt(call.question,
                                         formatContextChunks(call.chunks), lastOp.pre)
              /\ call.chunks = <<>> => call.result.answer = StreamFallback
              /\ conversationHistory =
                    queryHistory(lastOp.pre, call.question, call.chunks, call.fullAnswer)

\* The operations that are to leave the history alone
HistoryReaders == {"addDocument", "removeDocument", "updateConfig", "getStats", "testPipeline"}

\* A step in which a call returns after its full generated answer and
\* pushes its pair
PushStep ==
    /\ calls[1].pc \in {"generating", "streaming"}
    /\ calls'[1].pc = "returned"
    /\ calls'[1].chunks # <<>>
    /\ calls[1].kind = "stream" => calls'[1].fullAnswer = calls[1].backend
    /\ conversationHistory' =
          pushHistory(conversationHistory, calls[1].question, calls'[1].fullAnswer)

\* A step of clearHistory or clearKnowledgeBase
ClearStep ==
    /\ lastOp'.op \in {"clearHistory", "clearKnowledgeBase"}
    /\ conversationHistory' = <<>>

\* C25: the history changes only when a query/streamQuery call returns after
\* a full generated answer, and in clearHistory and clearKnowledgeBase; a call
\* that takes the empty-retrieval fallback returns without appending, and
\* addDocument, removeDocument, updateConfig, getStats and testPipeline leave
\* the history as they found it.
C25_HistoryChangedOnlyByAnswers ==
    /\ [][conversationHistory' # conversationHistory => PushStep \/ ClearStep]_vars
    /\ [](lastOp.op \in HistoryReaders => conversationHistory = lastOp.pre)
    /\ []((lastOp.op \in {"query", "streamQuery"} /\ calls[1].pc = "returned"
              /\ calls[1].chunks = <<>>)
            => (conversationHistory = lastOp.pre /\ ~calls[1].appended))

\* A query took the fallback path while the history held pairs
C25_Witness ==
    /\ Returned("query")
    /\ calls[1].chunks = <<>>
    /\ calls[1].result.answer = QueryFallback
    /\ conversationHistory # <<>>

-----------------------------------------------------------------------------
(* clearHistory and clearKnowledgeBase called while a query or streamQuery *)
(* call is suspended; lastOp is the last clear, with the number of calls   *)
(* started before it                                                       *)

\* The observation of a clear that may run while a call is in flight
ClearedAt(op) == [CallOp(op) EXCEPT !.k = started]

ClearQueryStart ==
    /\ started < MaxStreams
    /\ queryStart(1, <<"a">>)
    /\ started' = started + 1
    /\ UNCHANGED state
    /\ UNCHANGED <<lastOp, log>>

ClearStreamStart ==
    /\ started < MaxStreams
    /\ streamStart(1, <<"a">>)
    /\ started' = started + 1
    /\ UNCHANGED state
    /\ UNCHANGED <<lastOp, log>>

ClearHistoryInFlight ==
    /\ clearHistory
    /\ lastOp' = ClearedAt("clearHistory")
    /\ UNCHANGED <<log, started, state>>

ClearKnowledgeBaseInFlight ==
    /\ clearKnowledgeBase
    /\ lastOp' = ClearedAt("clearKnowledgeBase")
    /\ UNCHANGED <<log, started, state>>

ClearNext ==
    \/ \E file \in Files : addDocument(file) /\ Quiet
    \/ ClearQueryStart
    \/ ClearStreamStart
    \/ ClearHistoryInFlight
    \/ ClearKnowledgeBaseInFlight
    \/ queryRetrieved(1) /\ Quiet
    \/ \E answer \in GenAnswers : queryGenerated(1, answer) /\ Quiet
    \/ queryGenerateFails(1) /\ Quiet
    \/ streamNext(1, Streams) /\ Quiet
    \/ streamRetrieved(1) /\ Quiet
    \/ \E fragment \in Fragments : streamFragment(1, fragment) /\ Quiet
    \/ streamEnd(1) /\ Quiet
    \/ streamFails(1) /\ Quiet
    \/ streamCancel(1) /\ Quiet

SpecClear == PipeInit /\ [][ClearNext]_vars

\* C26: once clearHistory() or clearKnowledgeBase() has returned, the history
\* holds only pairs of calls that started after the clear: it has at most as
\* many pairs as calls were started since, so a call that was in flight when
\* the clear ran has appended nothing.
C26_ClearDropsInFlightCalls ==
    lastOp.op \in {"clearHistory", "clearKnowledgeBase"} =>
        Len(conversationHistory) <= started - lastOp.k

-----------------------------------------------------------------------------
(* The useRAG hook over the pipeline (useRAG.ts): addDocument, query and   *)
(* streamQuery, with calls in flight in both slots.  setState(prev => ...) *)
(* is applied as it is called.  lastOp is the last entry put on the query  *)
(* log, with the pipeline's result of that call.                           *)

\* setState(prev => ({ ...prev, isProcessing: value }))
SetProcessing(value) == [state EXCEPT !.isProcessing = value]

\* setState(prev => ({ ...prev, isQuerying: value }))
SetQuerying(value) == [state EXCEPT !.isQuerying = value]

\* setState(prev => ({ ...prev, queries: [result, ...prev.queries], isQuerying: false }))
LogQuery(result) == [state EXCEPT !.queries = <<result>> \o @, !.isQuerying = FALSE]

\* The result useRAG.streamQuery builds after its loop
BlankResult(question) == QueryResult(question, <<>>, <<>>)

\* The observation of a log entry: the hook method, the slot of the call and
\* the pipeline's result
Logged(op, c, result) == [NoOp EXCEPT !.op = op, !.k = c, !.result = result]

\* An addDocument call of the hook that awaits the pipeline
Uploading(c) == calls[c].kind = "upload" /\ calls[c].pc = "processing"

\* useRAG.addDocument up to its await: isProcessing is set
HookAddDocumentStart(c) ==
    /\ Free(c)
    /\ Len(state.documents) < MaxStore
    /\ calls' = [calls EXCEPT ![c] = [IdleCall EXCEPT !.kind = "upload", !.pc = "processing"]]
    /\ state' = SetProcessing(TRUE)
    /\ UNCHANGED <<storeVars, configVars, conversationHistory, lastOp, log, started>>

\* pipeline.addDocument resolved: the document is listed, isProcessing reset
HookAddDocumentDone(c, file) ==
    /\ Uploading(c)
    /\ Len(addDocuments(documents, createChunks(file.id, file.texts))) <= MaxStore
    /\ documents' = addDocuments(documents, createChunks(file.id, file.texts))
    /\ calls' = [calls EXCEPT ![c] = [@ EXCEPT !.pc = "returned"]]
    /\ state' = [state EXCEPT !.documents = Append(@, file.id), !.isProcessing = FALSE]
    /\ UNCHANGED <<configVars, conversationHistory, lastOp, log, started>>

\* pipeline.addDocument rejected: isProcessing reset, the error rethrown
HookAddDocumentFails(c) ==
    /\ Uploading(c)
    /\ calls' = [calls EXCEPT ![c] = [@ EXCEPT !.pc = "threw"]]
    /\ state' = SetProcessing(FALSE)
    /\ UNCHANGED <<storeVars, configVars, conversationHistory, lastOp, log, started>>

\* useRAG.query up to the first await of pipeline.query
HookQueryStart(c) ==
    /\ started < MaxStreams
    /\ queryStart(c, <<"a">>)
    /\ state' = SetQuerying(TRUE)
    /\ started' = started + 1
    /\ UNCHANGED <<lastOp, log>>

\* pipeline.query after retrieval; its fallback result is logged
HookQueryRetrieved(c) ==
    /\ queryRetrieved(c)
    /\ state' = IF calls[c].chunks = <<>> THEN LogQuery(calls'[c].result) ELSE state
    /\ lastOp' = IF calls[c].chunks = <<>> THEN Logged("hook.query", c, calls'[c].result)
                 ELSE lastOp
    /\ UNCHANGED <<log, started>>

\* pipeline.query resolved: its result is logged
HookQueryGenerated(c, answer) ==
    /\ queryGenerated(c, answer)
    /\ state' = LogQuery(calls'[c].result)
    /\ lastOp' = Logged("hook.query", c, calls'[c].result)
    /\ UNCHANGED <<log, started>>

\* pipeline.query rejected
HookQueryFails(c) ==
    /\ queryGenerateFails(c)
    /\ state' = SetQuerying(FALSE)
    /\ UNCHANGED <<lastOp, log, started>>

\* useRAG.streamQuery(question): the hook's generator is created
HookStreamStart(c) ==
    /\ started < MaxStreams
    /\ streamStart(c, <<"a">>)
    /\ started' = started + 1
    /\ UNCHANGED <<lastOp, log, state>>

\* The hook's consumer asks for the next item.  The first request sets
\* isQuerying and calls pipeline.streamQuery; the request after the fallback
\* answer finds the pipeline's generator done: the blank result is logged
HookStreamNext(c) ==
    /\ calls[c].pc \in {"created", "yieldedFragment", "yieldedFallback"}
    /\ streamNext(c, Streams)
    /\ state' = IF calls[c].pc = "created" THEN SetQuerying(TRUE)
                ELSE IF calls[c].pc = "yieldedFallback"
                THEN LogQuery(BlankResult(calls[c].question))
                ELSE state
    /\ lastOp' = IF calls[c].pc = "yieldedFallback"
                 THEN Logged("hook.streamQuery", c, calls[c].result)
                 ELSE lastOp
    /\ UNCHANGED <<log, started>>

\* The hook's for-await loop asks the pipeline's generator for the item after
\* a 'context' item, which it does not pass on
HookStreamPull(c) ==
    /\ calls[c].pc \in {"yieldedSearching", "yieldedFound"}
    /\ streamNext(c, Streams)
    /\ UNCHANGED <<lastOp, log, started, state>>

\* The backend stream ended: the pipeline returns its result, the hook logs
\* the blank one
HookStreamEnd(c) ==
    /\ streamEnd(c)
    /\ state' = LogQuery(BlankResult(calls[c].question))
    /\ lastOp' = Logged("hook.streamQuery", c, calls'[c].result)
    /\ UNCHANGED <<log, started>>

\* pipeline.streamQuery threw
HookStreamFails(c) ==
    /\ streamFails(c)
    /\ state' = SetQuerying(FALSE)
    /\ UNCHANGED <<lastOp, log, started>>

\* The consumer abandons the hook's generator at one of its yields: return()
\* ends it there, and the for-await loop ends the pipeline's generator;
\* neither the code after the loop nor the catch block runs
HookStreamCancel(c) ==
    /\ calls[c].pc \in {"yieldedFragment", "yieldedFallback"}
    /\ streamCancel(c)
    /\ UNCHANGED <<lastOp, log, started, state>>

\* The steps the promises and the generators take by themselves
HookProgress ==
    \E c \in Slots :
        \/ \E file \in Files : HookAddDocumentDone(c, file)
        \/ HookAddDocumentFails(c)
        \/ HookQueryRetrieved(c)
        \/ \E answer \in GenAnswers : HookQueryGenerated(c, answer)
        \/ HookQueryFails(c)
        \/ HookStreamPull(c)
        \/ streamRetrieved(c) /\ Quiet
        \/ \E fragment \in Fragments : streamFragment(c, fragment) /\ Quiet
        \/ HookStreamEnd(c)
        \/ HookStreamFails(c)

HookNext ==
    \/ \E c \in Slots : HookAddDocumentStart(c)
    \/ \E c \in Slots, file \in Files : HookAddDocumentDone(c, file)
    \/ \E c \in Slots : HookAddDocumentFails(c)
    \/ \E c \in Slots : HookQueryStart(c)
    \/ \E c \in Slots : HookQueryRetrieved(c)
    \/ \E c \in Slots, answer \in GenAnswers : HookQueryGenerated(c, answer)
    \/ \E c \in Slots : HookQueryFails(c)
    \/ \E c \in Slots : HookStreamStart(c)
    \/ \E c \in Slots : HookStreamNext(c)
    \/ \E c \in Slots : HookStreamPull(c)
    \/ \E c \in Slots : streamRetrieved(c) /\ Quiet
    \/ \E c \in Slots, fragment \in Fragments : streamFragment(c, fragment) /\ Quiet
    \/ \E c \in Slots : HookStreamEnd(c)
    \/ \E c \in Slots : HookStreamFails(c)
    \/ \E c \in Slots : HookStreamCancel(c)

SpecHook == PipeInit /\ [][HookNext]_vars

\* The hook with its promises settling and its generators running on
SpecHookFair == SpecHook /\ WF_vars(HookProgress)

\* C28: the entry the hook logs for a streamed query is the QueryResult of
\* that pipeline.streamQuery call: the same question, the answer made of the
\* fragments, the context and the sources of the retrieved chunks.
C28_StreamedEntryIsResult ==
    lastOp.op = "hook.streamQuery" =>
        /\ state.queries[1].question = lastOp.result.question
        /\ state.queries[1].answer = lastOp.result.answer
        /\ state.queries[1].context = lastOp.result.context
        /\ state.queries[1].sources = lastOp.result.sources

\* What the hook does log: the pipeline's result for query, and for
\* streamQuery a result with the question and nothing else
HookLogEntries ==
    /\ lastOp.op = "hook.query" => state.queries[1] = lastOp.result
    /\ lastOp.op = "hook.streamQuery" =>
          state.queries[1] = BlankResult(lastOp.result.question)

\* A query or streamQuery call of the hook has ended
Ended(c) ==
    /\ calls[c].kind \in {"query", "stream"}
    /\ calls[c].pc \in {"returned", "threw", "cancelled"}

\* C29: once a query or streamQuery call of the hook has ended, normally,
\* with an error or abandoned by its consumer, isQuerying is eventually
\* false.
C29_QueryingEventuallyReset ==
    \A c \in Slots : Ended(c) ~> ~state.isQuerying

\* What does hold: a call that returned or threw has reset isQuerying by then
HookQueryingResetAtEnd ==
    [][\A c \in Slots :
          (calls[c].kind \in {"query", "stream"} /\ calls'[c].pc # calls[c].pc
             /\ calls'[c].pc \in {"returned", "threw"})
          => ~state'.isQuerying]_vars

\* C30: isProcessing is true whenever an addDocument call of the hook is in
\* flight.
C30_ProcessingWhileUploading ==
    (\E c \in Slots : Uploading(c)) => state.isProcessing

====
